---- MODULE Spec2Model ----
(***************************************************************************)
(* Model of the kart-rentals booking flow (src/app/screens/*.tsx).         *)
(*                                                                         *)
(* The state is the four Firestore collections the screens write           *)
(* (sessions, bookings, payments, customers), the catalog collection they  *)
(* read (carts), and the local state of the screens whose handlers span    *)
(* several awaits (the payment screen's handleConfirm, the review screen). *)
(* Each handler is one action per await-delimited step; a handler that     *)
(* issues a single write is a single action.  Values the handlers take     *)
(* from outside (the signed-in user, the text fields, the route's          *)
(* sessionId) are drawn with \E from small sets.                           *)
(***************************************************************************)
EXTENDS Integers, Sequences, FiniteSets, TLC

\* ------------------------------------------------------------------ bounds
MaxSessions == 1        \* session documents that sessions.add() may create
MaxBookings == 2        \* batch commits that may succeed
MaxCatalogChanges == 1  \* writes of the external catalog owner
MaxEdits == 1           \* successful writes of the draft while a finalization may run

\* ------------------------------------------------------------ value sets
Users == {"u1", "u2"}
NoUser == "none"                 \* auth().currentUser is null
CartIds == {"A", "B"}
SessionIds == 1..MaxSessions
Absent == "absent"               \* a field the document does not hold
NoDoc == [exists |-> FALSE]      \* snapshot.exists is false

\* Text a user can leave in a name field, and what String.trim() makes of it.
NameInputs == {"", " ", "Ann"}
Trim(s) == IF s = " " THEN "" ELSE s
\* The remaining profile fields (dob, address, city, ...) all follow one
\* pattern, `value || null`; address stands for them.
AddressInputs == {"", "1 Main St"}
Null == "null"
OrNull(s) == IF s = "" THEN Null ELSE s

\* The (pickUp, dropOff) pair a details screen saves.
NoDates == [start |-> 0, end |-> 0]               \* dates: {}
DateInputs == {[start |-> 1, end |-> 2]}

\* Add-on selections; a session is created with addons: {} (an empty map).
EmptyMap == [enc |-> "map", items |-> <<>>]
ArrayOf(labels) == [enc |-> "array", items |-> labels]
AddonInputs == {<<>>, <<"Cooler">>}

\* What the landing screen can have selected when Next is pressed.
Selections == {<<>>, <<"A">>, <<"A", "B">>}

\* Stored daily_price values of the catalog, in hundredths: 72.00 and 45.00.
PriceInputs == {7200, 4500}
InitialPrice(id) == IF id = "A" THEN 7200 ELSE 4500

VARIABLES
  carts,          \* catalog: CartIds -> document or NoDoc
  catalogChanges, \* writes of the catalog owner so far
  sessions,       \* SessionIds -> document or NoDoc
  nextSession,    \* sessions created so far (ids are never reused)
  bookings,       \* sequence of booking documents; the id is the index
  payments,       \* sequence of payment documents
  customers,      \* Users -> profile document or NoDoc
  fin,            \* the payment screen's handleConfirm in flight
  review,         \* the review screen's loaded state
  edits,          \* successful writes of the draft by the editing screens
  ui,             \* the last thing a handler showed: an alert or a navigation
  fees,           \* a list of priced items and the fees each screen computes for it
  details,        \* the details screen: its load in flight and its candidates
  priceField,     \* a stored daily price and what each screen normalizes it to
  addonsField,    \* a stored add-ons field and the labels parsed from it
  card,           \* the payment screen's card inputs
  landing,        \* the landing screen: its catalog subscription and its quantities
  confirmation,   \* the confirmation screen: its booking subscription and its booking
  payment,        \* the payment screen's prefill load
  addOns          \* the add-ons screen's load

vars == <<carts, catalogChanges, sessions, nextSession, bookings, payments,
          customers, fin, review, edits, ui, fees, details, priceField, addonsField, card,
          landing, confirmation, payment, addOns>>

db == <<sessions, bookings, payments, customers>>
catalog == <<carts, catalogChanges>>
screens == <<fin, review, card>>
calc == <<fees, priceField, addonsField>>      \* what the pure computations are run on
others == <<confirmation, payment, addOns>>    \* the screens besides the landing screen
views == <<landing, others>>
flow == <<views, details, catalog, db, nextSession, screens, edits, ui>>

\* ----------------------------------------------------------------- helpers
Range(s) == {s[i] : i \in 1..Len(s)}

CartDoc(price) == [exists |-> TRUE, daily_price |-> price]

\* Landing.screen.tsx:161-174: the document sessions.add() stores.
NewSession(uid, selected) ==
  [exists |-> TRUE, customerId |-> uid, status |-> "in_progress",
   hasCarts |-> TRUE, carts |-> selected, addons |-> EmptyMap,
   dates |-> NoDates, bookingRef |-> 0]

\* AddOns.screen.tsx:169-175: set(..., {merge: true}) on a missing document
\* creates one that holds nothing but partialBooking.addons.
AddonsOnlySession(selected) ==
  [exists |-> TRUE, customerId |-> Absent, status |-> Absent,
   hasCarts |-> FALSE, carts |-> <<>>, addons |-> ArrayOf(selected),
   dates |-> NoDates, bookingRef |-> 0]

Pending == [read |-> FALSE, exists |-> FALSE, daily_price |-> 0]

IdleFin ==
  [pc |-> "idle", uid |-> NoUser, sid |-> 0, carts |-> <<>>,
   addons |-> EmptyMap, dates |-> NoDates, docs |-> <<>>,
   firstName |-> "", lastName |-> "", address |-> "",
   rental |-> FALSE, rules |-> FALSE, saveCard |-> FALSE]

\* What a handler shows last: Alert.alert(title, ...) / alert(text), kept by
\* its title, or navigation.navigate(screen, {...}), kept by its screen.
Alert(title) == title
Navigate(screen, id) == screen

\* Review.screen.tsx:50-52: the review screen before it is mounted; pc, ids and
\* owner are where its load stands and what it has read so far.
NoReview ==
  [sid |-> 0, carts |-> <<>>, mounted |-> FALSE, loading |-> TRUE, profile |-> <<>>,
   pc |-> "unmounted", ids |-> <<>>, owner |-> NoUser]

\* A stored booking as far as its amounts go: line items and totals, every
\* field of which is <<>> when the document does not hold it and <<x>> when it
\* holds the amount x, in hundredths.
NoAmounts ==
  [carts |-> <<>>, totals |-> [base |-> <<>>, tax |-> <<>>, deposit |-> <<>>, total |-> <<>>]]

\* The fees a screen computed for `lines`, and the amounts the confirmation
\* screen shows for `booking`: <<>> before it did, <<fees>> after.
NoFees == [lines |-> <<>>, review |-> <<>>, final |-> <<>>, booking |-> NoAmounts, shown |-> <<>>]

\* The details screen before it is mounted on a session.
NoDetails ==
  [pc |-> "unmounted", sid |-> 0, single |-> FALSE, ids |-> <<>>, docs |-> <<>>,
   carts |-> <<>>]

\* Payment.screen.tsx:43-51: the card inputs, empty until typed or prefilled.
\* Card numbers and the masked number are sequences of characters.
NoCard ==
  [cardMasked |-> <<>>, cardBrand |-> "", cardExpiry |-> "",
   cardNumberInput |-> <<>>, nameOnCardInput |-> "", expiryInput |-> "", cvvInput |-> ""]

\* Landing.screen.tsx:39-40: useState([]), useState(true); no listener yet.
NoLanding ==
  [mounted |-> FALSE, listening |-> FALSE, seen |-> -1, loading |-> TRUE, carts |-> <<>>]

\* Confirmation.screen.tsx:50-51: useState(null), useState(true).
NoConfirmation ==
  [mounted |-> FALSE, listening |-> FALSE, delivered |-> FALSE, bookingId |-> 0,
   loading |-> TRUE, booking |-> <<>>]

\* Payment.screen.tsx:30-55 and 62-69: the payment screen before it is mounted.
\* `queries` lists the queries its load has sent to the payments collection.
NoPayment ==
  [pc |-> "unmounted", mounted |-> FALSE, cancelled |-> FALSE, uid |-> NoUser,
   fetching |-> TRUE, personal |-> [firstName |-> "", address |-> ""],
   saveCard |-> FALSE, paymentDocData |-> <<>>, queries |-> <<>>, error |-> <<>>]

\* AddOns.screen.tsx:34-35 and 44: the add-ons screen before it is mounted.
NoAddOns ==
  [pc |-> "unmounted", mounted |-> FALSE, cancelled |-> FALSE, sid |-> 0,
   loading |-> TRUE, addons |-> <<>>, cartIds |-> <<>>, existingAddons |-> <<>>]

\* The state of the screens and the store; the card inputs are given apart.
InitFlow ==
  /\ landing = NoLanding
  /\ confirmation = NoConfirmation
  /\ payment = NoPayment
  /\ addOns = NoAddOns
  /\ details = NoDetails
  /\ carts = [id \in CartIds |-> CartDoc(InitialPrice(id))]
  /\ catalogChanges = 0
  /\ sessions = [s \in SessionIds |-> NoDoc]
  /\ nextSession = 0
  /\ bookings = <<>>
  /\ payments = <<>>
  /\ customers = [u \in Users |-> NoDoc]
  /\ fin = IdleFin
  /\ review = NoReview
  /\ edits = 0
  /\ ui = Navigate("LandingScreen", 0)

\* The normalizations of `stored`: <<>> before a screen ran, <<number>> after.
NoPrice == [stored |-> [kind |-> "undefined"], review |-> <<>>, final |-> <<>>]

\* The add-on lists of a session's items, the add-ons field that stores each,
\* the add-ons saved on the session, and the labels each screen offers for
\* them: <<>> before the screen loaded, <<labels>> after.
NoLabels ==
  [lists |-> <<>>, stored |-> <<>>, saved |-> [kind |-> "map", items |-> <<>>],
   addOns |-> <<>>, details |-> <<>>]

InitStore == InitFlow /\ card = NoCard

Init == InitStore /\ fees = NoFees /\ priceField = NoPrice /\ addonsField = NoLabels

\* ------------------------------------------------ JavaScript numbers
\* Amounts in the code are JavaScript numbers: IEEE-754 binary64.  A natural
\* number is kept as a sequence of limbs, least significant first, without
\* high zero limbs; a non-negative double is m * 2^e with m = 0 or a mantissa
\* of exactly MantissaBits bits, so equal values are equal records.
LimbBits == 15
LimbBase == 2^LimbBits
MantissaBits == 53

RECURSIVE Pow2(_)
Pow2(k) == IF k = 0 THEN 1 ELSE 2 * Pow2(k - 1)

RECURSIVE BitsOf(_)
BitsOf(n) == IF n = 0 THEN 0 ELSE 1 + BitsOf(n \div 2)

RECURSIVE NatOf(_)
NatOf(n) == IF n = 0 THEN <<>> ELSE <<n % LimbBase>> \o NatOf(n \div LimbBase)

RECURSIVE Strip(_)
Strip(a) ==
  IF a = <<>> THEN a
  ELSE IF a[Len(a)] = 0 THEN Strip(SubSeq(a, 1, Len(a) - 1)) ELSE a

RECURSIVE AddCarry(_, _, _)
AddCarry(a, b, c) ==
  IF a = <<>> /\ b = <<>> THEN (IF c = 0 THEN <<>> ELSE <<c>>)
  ELSE LET s == (IF a = <<>> THEN 0 ELSE Head(a)) + (IF b = <<>> THEN 0 ELSE Head(b)) + c
       IN <<s % LimbBase>> \o AddCarry(IF a = <<>> THEN a ELSE Tail(a),
                                       IF b = <<>> THEN b ELSE Tail(b),
                                       s \div LimbBase)

NatAdd(a, b) == AddCarry(a, b, 0)

RECURSIVE MulCarry(_, _, _)
MulCarry(a, k, c) ==
  IF a = <<>> THEN (IF c = 0 THEN <<>> ELSE <<c>>)
  ELSE LET s == Head(a) * k + c
       IN <<s % LimbBase>> \o MulCarry(Tail(a), k, s \div LimbBase)

\* a * k for 0 <= k < LimbBase
NatMulSmall(a, k) == IF k = 0 THEN <<>> ELSE MulCarry(a, k, 0)

RECURSIVE NatMul(_, _)
NatMul(a, b) ==
  IF a = <<>> \/ b = <<>> THEN <<>>
  ELSE LET rest == NatMul(a, Tail(b))
       IN NatAdd(NatMulSmall(a, Head(b)), IF rest = <<>> THEN rest ELSE <<0>> \o rest)

RECURSIVE DivFrom(_, _, _)
\* Long division by 1 <= d <= LimbBase from the top limb down, r carried in.
DivFrom(a, d, r) ==
  IF a = <<>> THEN [q |-> <<>>, r |-> r]
  ELSE LET cur == r * LimbBase + a[Len(a)]
           low == DivFrom(SubSeq(a, 1, Len(a) - 1), d, cur % d)
       IN [q |-> low.q \o <<cur \div d>>, r |-> low.r]

NatDivSmall(a, d) == LET res == DivFrom(a, d, 0) IN [q |-> Strip(res.q), r |-> res.r]

BitLen(a) == IF a = <<>> THEN 0 ELSE LimbBits * (Len(a) - 1) + BitsOf(a[Len(a)])

ShiftLeft(a, s) ==
  IF a = <<>> THEN a
  ELSE [i \in 1..(s \div LimbBits) |-> 0] \o NatMulSmall(a, Pow2(s % LimbBits))

\* a \div 2^s, and whether any of the bits shifted out was set
ShiftRight(a, s) ==
  LET w == s \div LimbBits
      dropped == SubSeq(a, 1, IF w < Len(a) THEN w ELSE Len(a))
      res == NatDivSmall(SubSeq(a, w + 1, Len(a)), Pow2(s % LimbBits))
  IN [q |-> res.q, sticky |-> res.r # 0 \/ \E i \in 1..Len(dropped) : dropped[i] # 0]

IsOdd(a) == a # <<>> /\ a[1] % 2 = 1

Zero64 == [m |-> <<>>, e |-> 0]

\* n * 2^e rounded to the nearest double, ties to the even mantissa.
Round64(n, e) ==
  IF n = <<>> THEN Zero64
  ELSE LET len == BitLen(n)
       IN IF len <= MantissaBits
          THEN [m |-> ShiftLeft(n, MantissaBits - len), e |-> e - (MantissaBits - len)]
          ELSE LET s == len - MantissaBits
                   g == ShiftRight(n, s - 1)
                   q == ShiftRight(g.q, 1)
                   up == q.sticky /\ (g.sticky \/ IsOdd(q.q))
                   m == IF up THEN NatAdd(q.q, <<1>>) ELSE q.q
               IN IF BitLen(m) > MantissaBits
                  THEN [m |-> ShiftRight(m, 1).q, e |-> e + s + 1]
                  ELSE [m |-> m, e |-> e + s]

\* x + y
Add64(x, y) ==
  IF x.m = <<>> THEN y
  ELSE IF y.m = <<>> THEN x
  ELSE LET e == IF x.e < y.e THEN x.e ELSE y.e
       IN Round64(NatAdd(ShiftLeft(x.m, x.e - e), ShiftLeft(y.m, y.e - e)), e)

\* x * y
Mul64(x, y) == Round64(NatMul(x.m, y.m), x.e + y.e)

\* The double nearest to n / d, for a natural n and 1 <= d <= LimbBase: what
\* reading the decimal numeral of n / d gives when d is a power of ten.
Ratio64(n, d) ==
  LET res == NatDivSmall(ShiftLeft(n, 5 * LimbBits), d)
  IN Round64(NatAdd(ShiftLeft(res.q, 1), IF res.r # 0 THEN <<1>> ELSE <<>>),
             -(5 * LimbBits) - 1)

\* A numeral with two decimals, given in hundredths, read as a number.
Decimal64(hundredths) == Ratio64(NatOf(hundredths), 100)

\* +(x.toFixed(2)): the integer n for which n / 100 - x is closest to zero,
\* the larger one of two, printed with two decimals and read back.
ToFixed2(x) ==
  LET n == NatMulSmall(x.m, 100)
      hundredths ==
        IF x.e >= 0 THEN ShiftLeft(n, x.e)
        ELSE LET g == ShiftRight(n, -x.e - 1)
                 q == ShiftRight(g.q, 1)
             IN IF q.sticky THEN NatAdd(q.q, <<1>>) ELSE q.q
  IN Ratio64(hundredths, 100)

\* ------------------------------------------------------------- pricing
\* The flow below keeps amounts in hundredths and computes the fees in exact
\* decimal arithmetic; WholeAmountsAgree shows this to be what the code's
\* numbers give for the whole amounts the flow's catalog holds.  Totals64 is
\* the computation on the numbers themselves.
Deposit == 5000    \* hundredths: const deposit = 50

\* A tenth of `base` to the nearest hundredth, halves up.
TenthRounded(base) ==
  IF base >= 0 THEN (base + 5) \div 10 ELSE -((-base + 5) \div 10)

RECURSIVE SumLines(_)
\* carts.reduce((sum, c) => sum + c.daily_price * c.qty, 0)
SumLines(lines) ==
  IF lines = <<>> THEN 0
  ELSE SumLines(SubSeq(lines, 1, Len(lines) - 1))
       + lines[Len(lines)].daily_price * lines[Len(lines)].qty

Totals(lines) ==
  LET base == SumLines(lines)
      tax == TenthRounded(base)
  IN [base |-> base, tax |-> tax, deposit |-> Deposit,
      total |-> base + tax + Deposit]

\* Payment.screen.tsx:198-200 and Review.screen.tsx:146-149 on numbers.
Tenth64 == Decimal64(10)              \* the literal 0.10
Deposit64 == Decimal64(Deposit)
Int64(n) == Round64(NatOf(n), 0)

RECURSIVE Sum64(_)
\* carts.reduce((sum, c) => sum + c.daily_price * c.qty, 0), left to right
Sum64(lines) ==
  IF lines = <<>> THEN Zero64
  ELSE Add64(Sum64(SubSeq(lines, 1, Len(lines) - 1)),
             Mul64(lines[Len(lines)].daily_price, Int64(lines[Len(lines)].qty)))

Totals64(lines) ==
  LET base == Sum64(lines)
      tax == ToFixed2(Mul64(base, Tenth64))
  IN [base |-> base, tax |-> tax, deposit |-> Deposit64,
      total |-> ToFixed2(Add64(Add64(base, tax), Deposit64))]

\* parseFloat(String(d.daily_price ?? '0').replace(/[^0-9.-]+/g, '')) || 0:
\* the catalog of this model stores non-negative numbers, which String prints
\* in digits and a point and parseFloat reads back: NormalizePrice below is
\* the conversion itself, and CatalogPricesNormalizeToThemselves shows it to
\* give these values back.
NormPrice(raw) == raw

\* A line item priced from what the review screen last showed for the item.
LineItem_FromReview(id, doc) ==
  LET shown == {k \in 1..Len(review.carts) : review.carts[k].id = id}
  IN [id |-> id,
      daily_price |-> IF shown = {} THEN NormPrice(doc.daily_price)
                      ELSE review.carts[CHOOSE k \in shown : TRUE].daily_price,
      qty |-> 1]

\* One booking line item per catalog document that exists; qty is always 1.
LineItem(id, doc) == [id |-> id, daily_price |-> NormPrice(doc.daily_price), qty |-> 1]

RECURSIVE LinesOf(_, _)
\* cartDocs.forEach(cd => { if (!cd.exists) return; ... push(...) })
LinesOf(ids, docs) ==
  IF ids = <<>> THEN <<>>
  ELSE LET rest == LinesOf(Tail(ids), Tail(docs))
       IN IF Head(docs).exists THEN <<LineItem(Head(ids), Head(docs))>> \o rest
          ELSE rest

\* ------------------------------------------------- price normalization
\* parseFloat(String(d.daily_price ?? '0').replace(/[^0-9.-]+/g, '')) || 0
\* (Payment.screen.tsx:184-185, Review.screen.tsx:77) on what a catalog
\* document can hold in daily_price: a string (a sequence of characters), a
\* number (a sign and an amount in hundredths), null, or no field at all.
\* The result is a sign and a double.
Digits == <<"0", "1", "2", "3", "4", "5", "6", "7", "8", "9">>
IsDigit(c) == \E d \in 1..10 : Digits[d] = c
DigitValue(c) == (CHOOSE d \in 1..10 : Digits[d] = c) - 1

RECURSIVE NumeralOf(_)
NumeralOf(n) ==
  IF n < 10 THEN <<Digits[n + 1]>>
  ELSE NumeralOf(n \div 10) \o <<Digits[(n % 10) + 1]>>

\* String(x) of a number with at most two decimals: no trailing zeros, no
\* point for a whole number, "0" for either zero.
NumberToString(neg, hundredths) ==
  LET cents == hundredths % 100
      fraction == IF cents = 0 THEN <<>>
                  ELSE IF cents % 10 = 0 THEN <<".", Digits[(cents \div 10) + 1]>>
                  ELSE <<".", Digits[(cents \div 10) + 1], Digits[(cents % 10) + 1]>>
  IN (IF neg /\ hundredths # 0 THEN <<"-">> ELSE <<>>)
       \o NumeralOf(hundredths \div 100) \o fraction

\* String(d.daily_price ?? '0')
Stringify(stored) ==
  CASE stored.kind = "string" -> stored.chars
    [] stored.kind = "number" -> NumberToString(stored.neg, stored.hundredths)
    [] OTHER -> <<"0">>                      \* null and undefined

\* A replace that removes nothing.
KeepPriceChars_KeepsAll(raw) == raw

RECURSIVE KeepPriceChars(_)
\* .replace(/[^0-9.-]+/g, '')
KeepPriceChars(raw) ==
  IF raw = <<>> THEN <<>>
  ELSE IF IsDigit(Head(raw)) \/ Head(raw) \in {".", "-"}
       THEN <<Head(raw)>> \o KeepPriceChars(Tail(raw))
       ELSE KeepPriceChars(Tail(raw))

RECURSIVE DigitRun(_)
\* the length of the longest prefix of digits
DigitRun(chars) ==
  IF chars = <<>> \/ ~IsDigit(Head(chars)) THEN 0 ELSE 1 + DigitRun(Tail(chars))

RECURSIVE NumeralValue(_)
NumeralValue(digits) ==
  IF digits = <<>> THEN 0
  ELSE 10 * NumeralValue(SubSeq(digits, 1, Len(digits) - 1)) + DigitValue(digits[Len(digits)])

RECURSIVE Pow10(_)
Pow10(k) == IF k = 0 THEN 1 ELSE 10 * Pow10(k - 1)

NotANumber == [nan |-> TRUE, neg |-> FALSE, abs |-> Zero64]

\* parseFloat on a string without blanks, letters or '+': the longest prefix
\* that is a numeral, an optional '-' then digits with an optional point and
\* digits, or a point and digits; NaN when that prefix holds no digit.
ParseFloat(chars) ==
  LET neg == chars # <<>> /\ Head(chars) = "-"
      body == IF neg THEN Tail(chars) ELSE chars
      whole == DigitRun(body)
      rest == SubSeq(body, whole + 1, Len(body))
      decimals == IF rest # <<>> /\ Head(rest) = "." THEN DigitRun(Tail(rest)) ELSE 0
      digits == SubSeq(body, 1, whole) \o SubSeq(rest, 2, decimals + 1)
  IN IF whole + decimals = 0 THEN NotANumber
     ELSE [nan |-> FALSE, neg |-> neg,
           abs |-> Ratio64(NatOf(NumeralValue(digits)), Pow10(decimals))]

\* x || 0: NaN and both zeros give 0.
OrZero(x) ==
  IF x.nan \/ x.abs = Zero64 THEN [neg |-> FALSE, abs |-> Zero64]
  ELSE [neg |-> x.neg, abs |-> x.abs]

NormalizePrice(stored) == OrZero(ParseFloat(KeepPriceChars(Stringify(stored))))

\* ------------------------------------------------- add-on labels
\* parseAddonsField (AddOns.screen.tsx:46-78, Registration.screen.tsx:1022-1035)
\* on what a catalog document can hold in its add-ons field: an array of
\* strings, a map whose values are strings, a string, or nothing.  A string is
\* a sequence of characters; the strings of the model's documents hold no
\* escape, no digit and no nested bracket, and their labels no comma or quote.
RECURSIVE TrimChars(_)
\* String.trim()
TrimChars(s) ==
  IF s # <<>> /\ Head(s) = " " THEN TrimChars(Tail(s))
  ELSE IF s # <<>> /\ s[Len(s)] = " " THEN TrimChars(SubSeq(s, 1, Len(s) - 1))
  ELSE s

RECURSIVE TrimmedNonEmpty(_)
\* .map(String).map(s => s.trim()).filter(Boolean)
TrimmedNonEmpty(items) ==
  IF items = <<>> THEN <<>>
  ELSE LET t == TrimChars(Head(items))
       IN (IF t = <<>> THEN <<>> ELSE <<t>>) \o TrimmedNonEmpty(Tail(items))

RECURSIVE SplitOnComma(_)
\* .split(',')
SplitOnComma(s) ==
  IF \A k \in 1..Len(s) : s[k] # "," THEN <<s>>
  ELSE LET k == CHOOSE i \in 1..Len(s) : s[i] = "," /\ \A j \in 1..(i - 1) : s[j] # ","
       IN <<SubSeq(s, 1, k - 1)>> \o SplitOnComma(SubSeq(s, k + 1, Len(s)))

\* .replace(/^\[|\]$/g, '') with <<"[">>, <<"]">>, and
\* .replace(/^["']|["']$/g, '') with the two quotes for both.
StripEnds(s, opening, closing) ==
  LET a == IF s # <<>> /\ Head(s) \in opening THEN Tail(s) ELSE s
  IN IF a # <<>> /\ a[Len(a)] \in closing THEN SubSeq(a, 1, Len(a) - 1) ELSE a

Quotes == {"\"", "'"}

\* stripped.split(',').map(x => x.replace(/^["']|["']$/g, '').trim()).filter(Boolean)
SplitLabels(stripped) ==
  LET parts == SplitOnComma(stripped)
  IN TrimmedNonEmpty([k \in 1..Len(parts) |-> StripEnds(parts[k], Quotes, Quotes)])

\* JSON.parse(s) of a text that is an array of strings: <<items>>; of any
\* other text of the model: <<>> (it throws).
JSONParseArray(s) ==
  LET t == TrimChars(s)
      inner == TrimChars(SubSeq(t, 2, Len(t) - 1))
      parts == SplitOnComma(inner)
      IsString(x) == /\ Len(x) >= 2 /\ x[1] = "\"" /\ x[Len(x)] = "\""
                     /\ \A k \in 2..(Len(x) - 1) : x[k] # "\""
  IN IF Len(t) < 2 \/ t[1] # "[" \/ t[Len(t)] # "]" THEN <<>>
     ELSE IF inner = <<>> THEN << <<>> >>
     ELSE IF \A k \in 1..Len(parts) : IsString(TrimChars(parts[k]))
          THEN <<[k \in 1..Len(parts) |->
                    SubSeq(TrimChars(parts[k]), 2, Len(TrimChars(parts[k])) - 1)]>>
          ELSE <<>>

\* AddOns.screen.tsx:46-78
parseAddonsField(raw) ==
  CASE raw.kind \in {"array", "map"} -> TrimmedNonEmpty(raw.items)
    [] raw.kind = "string" ->
         LET s == TrimChars(raw.chars)
             p == JSONParseArray(s)
             stripped == TrimChars(StripEnds(s, {"["}, {"]"}))
         IN IF raw.chars = <<>> THEN <<>>                 \* !raw
            ELSE IF p # <<>> THEN TrimmedNonEmpty(p[1])
            ELSE IF stripped = <<>> THEN <<>>
            ELSE SplitLabels(stripped)
    [] OTHER -> <<>>

\* Registration.screen.tsx:1022-1035: no case for a map, no JSON.parse.
parseAddonsFieldDetails(raw) ==
  CASE raw.kind = "array" -> TrimmedNonEmpty(raw.items)
    [] raw.kind = "string" -> SplitLabels(StripEnds(raw.chars, {"["}, {"]"}))
    [] OTHER -> <<>>

RECURSIVE AddAll(_, _)
\* labels.forEach(a => set.add(a)); a Set keeps the order of first insertion.
AddAll(set, labels) ==
  IF labels = <<>> THEN set
  ELSE AddAll(IF \E k \in 1..Len(set) : set[k] = Head(labels)
              THEN set ELSE Append(set, Head(labels)),
              Tail(labels))

RECURSIVE AddOnsOffered(_)
\* AddOns.screen.tsx:111-128: the labels of every catalog document found.
AddOnsOffered(fields) ==
  IF fields = <<>> THEN <<>>
  ELSE AddAll(AddOnsOffered(SubSeq(fields, 1, Len(fields) - 1)),
              parseAddonsField(fields[Len(fields)]))

RECURSIVE DetailsOffered(_)
\* Registration.screen.tsx:1054-1072
DetailsOffered(fields) ==
  IF fields = <<>> THEN <<>>
  ELSE AddAll(DetailsOffered(SubSeq(fields, 1, Len(fields) - 1)),
              parseAddonsFieldDetails(fields[Len(fields)]))

\* ------------------------------------------------- external environment
\* The catalog belongs to its owner, who may reprice or withdraw an item.
CatalogSetPrice(id, p) ==
  /\ catalogChanges < MaxCatalogChanges
  /\ carts[id].exists
  /\ carts[id].daily_price # p
  /\ carts' = [carts EXCEPT ![id] = CartDoc(p)]
  /\ catalogChanges' = catalogChanges + 1
  /\ UNCHANGED <<views, details, calc, db, nextSession, screens, edits, ui>>

CatalogDelete(id) ==
  /\ catalogChanges < MaxCatalogChanges
  /\ carts[id].exists
  /\ carts' = [carts EXCEPT ![id] = NoDoc]
  /\ catalogChanges' = catalogChanges + 1
  /\ UNCHANGED <<views, details, calc, db, nextSession, screens, edits, ui>>

\* A session document removed from the store by something other than the flow.
SessionDelete(sid) ==
  /\ sessions[sid].exists
  /\ sessions' = [sessions EXCEPT ![sid] = NoDoc]
  /\ UNCHANGED <<views, details, calc, catalog, nextSession, bookings, payments, customers,
                 screens, edits, ui>>

\* ---------------------------------------------------------- landing screen
\* A landing screen that creates the session without asking who is signed in.
onNext_SkipsSignIn(uid, selected) ==
  /\ UNCHANGED <<others, details, calc, catalog, bookings, payments, customers, screens, edits>>
  /\ IF selected = <<>>
     THEN /\ ui' = Alert("Select at least one cart to continue")
          /\ UNCHANGED <<sessions, nextSession>>
     ELSE \/ /\ nextSession < MaxSessions
             /\ sessions' = [sessions EXCEPT ![nextSession + 1] = NewSession(uid, selected)]
             /\ nextSession' = nextSession + 1
             /\ ui' = Navigate("DetailsScreen", nextSession + 1)
          \/ /\ ui' = Alert("Error")
             /\ UNCHANGED <<sessions, nextSession>>

\* `selected` is what carts.filter(c => c.quantity > 0).map(c => c.id) gave
\* (with the tapped id as fallback); uid is auth().currentUser.
onNext(uid, selected) ==
  /\ UNCHANGED <<others, details, calc, catalog, bookings, payments, customers, screens, edits>>
  /\ IF selected = <<>>
     THEN /\ ui' = Alert("Select at least one cart to continue")
          /\ UNCHANGED <<sessions, nextSession>>
     ELSE IF uid = NoUser
     THEN /\ ui' = Alert("Not signed in")
          /\ UNCHANGED <<sessions, nextSession>>
     ELSE \/ /\ nextSession < MaxSessions
             /\ sessions' = [sessions EXCEPT ![nextSession + 1] = NewSession(uid, selected)]
             /\ nextSession' = nextSession + 1
             /\ ui' = Navigate("DetailsScreen", nextSession + 1)
          \/ /\ ui' = Alert("Error")          \* sessions.add() rejected
             /\ UNCHANGED <<sessions, nextSession>>

\* ---------------------------------------------------------- details screen
\* A date save that also rewrites the status field.
handleSave_ResetsStatus(sid, d) ==
  /\ UNCHANGED <<views, details, calc, catalog, nextSession, bookings, payments, customers, screens>>
  /\ \/ /\ sessions[sid].exists
        /\ sessions' = [sessions EXCEPT ![sid].dates = d, ![sid].status = "in_progress"]
        /\ edits' = edits + 1
        /\ ui' = Navigate("AddOnsScreen", sid)
     \/ /\ ui' = Alert("Unable to save, try again")
        /\ UNCHANGED <<sessions, edits>>

\* A date save that writes with set(..., {merge: true}) instead of update().
handleSave_Upserts(sid, d) ==
  /\ UNCHANGED <<views, details, calc, catalog, nextSession, bookings, payments, customers, screens>>
  /\ \/ /\ sessions' = [sessions EXCEPT ![sid] =
              IF sessions[sid].exists THEN [@ EXCEPT !.dates = d]
              ELSE [AddonsOnlySession(<<>>) EXCEPT !.addons = EmptyMap, !.dates = d]]
        /\ edits' = edits + 1
        /\ ui' = Navigate("AddOnsScreen", sid)
     \/ /\ ui' = Alert("Unable to save, try again")
        /\ UNCHANGED <<sessions, edits>>

\* Details.screen.tsx:118-135 (and its copy Review.screen.tsx:441-458):
\* update() of the two date fields; update() rejects when the document is
\* missing.
handleSave(sid, d) ==
  /\ UNCHANGED <<views, details, calc, catalog, nextSession, bookings, payments, customers, screens>>
  /\ \/ /\ sessions[sid].exists
        /\ sessions' = [sessions EXCEPT ![sid].dates = d]
        /\ edits' = edits + 1
        /\ ui' = Navigate("AddOnsScreen", sid)
     \/ /\ ui' = Alert("Unable to save, try again")   \* not found, or the store failed
        /\ UNCHANGED <<sessions, edits>>

\* ---------------------------------------------------------- add-ons screen
\* An add-ons save that adds the selected labels to the stored ones.
onSave_AddsToStored(sid, selected) ==
  /\ UNCHANGED <<views, details, calc, catalog, nextSession, bookings, payments, customers, screens>>
  /\ IF sid = 0
     THEN /\ ui' = Alert("Missing session")
          /\ UNCHANGED <<sessions, edits>>
     ELSE \/ /\ sessions' = [sessions EXCEPT ![sid] =
                   IF sessions[sid].exists
                   THEN [sessions[sid] EXCEPT
                           !.addons = ArrayOf(sessions[sid].addons.items \o selected)]
                   ELSE AddonsOnlySession(selected)]
             /\ edits' = edits + 1
             /\ ui' = Navigate("ReviewScreen", sid)
          \/ /\ ui' = Alert("Save failed")
             /\ UNCHANGED <<sessions, edits>>

\* An add-ons save that writes with set() and no merge: the document becomes
\* the payload.
onSave_Overwrites(sid, selected) ==
  /\ UNCHANGED <<views, details, calc, catalog, nextSession, bookings, payments, customers, screens>>
  /\ IF sid = 0
     THEN /\ ui' = Alert("Missing session")
          /\ UNCHANGED <<sessions, edits>>
     ELSE \/ /\ sessions' = [sessions EXCEPT ![sid] = AddonsOnlySession(selected)]
             /\ edits' = edits + 1
             /\ ui' = Navigate("ReviewScreen", sid)
          \/ /\ ui' = Alert("Save failed")
             /\ UNCHANGED <<sessions, edits>>

\* AddOns.screen.tsx:160-185: set({partialBooking: {addons}}, {merge: true}).
onSave(sid, selected) ==
  /\ UNCHANGED <<views, details, calc, catalog, nextSession, bookings, payments, customers, screens>>
  /\ IF sid = 0
     THEN /\ ui' = Alert("Missing session")
          /\ UNCHANGED <<sessions, edits>>
     ELSE \/ /\ sessions' = [sessions EXCEPT ![sid] =
                   IF sessions[sid].exists
                   THEN [sessions[sid] EXCEPT !.addons = ArrayOf(selected)]
                   ELSE AddonsOnlySession(selected)]
             /\ edits' = edits + 1
             /\ ui' = Navigate("ReviewScreen", sid)
          \/ /\ ui' = Alert("Save failed")
             /\ UNCHANGED <<sessions, edits>>

\* ------------------------------------- details screen, single selection
\* Registration.screen.tsx:1038-1087: the candidates are the session's carts
\* that exist in the catalog; toggleCart leaves at most one of them selected,
\* so carts.filter(c => c.quantity > 0) is empty or a single candidate.
SelectableCarts(sid) ==
  {<<>>} \cup
  (IF sessions[sid].exists /\ sessions[sid].hasCarts
   THEN {<<id>> : id \in {c \in Range(sessions[sid].carts) : carts[c].exists}}
   ELSE {})

\* Registration.screen.tsx:1094-1112: one update() of dates, add-ons and carts.
handleSaveSelection(sid, d, selectedAddons, selectedCarts) ==
  /\ UNCHANGED <<views, details, calc, catalog, nextSession, bookings, payments, customers, screens>>
  /\ \/ /\ sessions[sid].exists
        /\ sessions' = [sessions EXCEPT ![sid] =
              [@ EXCEPT !.dates = d, !.addons = ArrayOf(selectedAddons),
                        !.hasCarts = TRUE, !.carts = selectedCarts]]
        /\ edits' = edits + 1
        /\ ui' = Navigate("ReviewScreen", sid)
     \/ /\ ui' = Alert("Unable to save, try again")
        /\ UNCHANGED <<sessions, edits>>

\* ------------------------------------------- details screen, its candidates
\* Details.screen.tsx:58-110 and Registration.screen.tsx:1038-1081: the load
\* reads the session, starts one catalog lookup per id of partialBooking.carts
\* (no array: no lookup) and waits for all of them with Promise.all, which
\* hands the answers over by position whatever order they arrive in.  A missing
\* session is logged, not shown; the screen then renders without candidates.
DetailsMount(sid, single) ==
  /\ details.pc = "unmounted"
  /\ details' =
       IF ~sessions[sid].exists
       THEN [NoDetails EXCEPT !.pc = "failed", !.sid = sid, !.single = single]
       ELSE LET cartIds == IF sessions[sid].hasCarts THEN sessions[sid].carts ELSE <<>>
            IN [pc |-> "loading", sid |-> sid, single |-> single, ids |-> cartIds,
                docs |-> [i \in 1..Len(cartIds) |-> [read |-> FALSE, exists |-> FALSE]],
                carts |-> <<>>]
  /\ UNCHANGED <<views, calc, catalog, db, nextSession, screens, edits, ui>>

\* One lookup of the load settles: carts/{id}.get().
DetailsGetCart(i) ==
  /\ details.pc = "loading"
  /\ i \in 1..Len(details.docs)
  /\ ~details.docs[i].read
  /\ details' = [details EXCEPT !.docs[i] =
        [read |-> TRUE, exists |-> carts[details.ids[i]].exists]]
  /\ UNCHANGED <<views, calc, catalog, db, nextSession, screens, edits, ui>>

RECURSIVE Fetched(_, _, _)
\* results.filter(c => c !== null) / for (cd of cartDocs) { if (!cd.exists)
\* continue; fetched.push(...) }: a candidate per document found, selected
\* (quantity 1) on the details screen and unselected (0) on the
\* single-selection one.
Fetched(ids, docs, single) ==
  IF ids = <<>> THEN <<>>
  ELSE LET rest == Fetched(Tail(ids), Tail(docs), single)
       IN IF Head(docs).exists
          THEN <<[id |-> Head(ids), quantity |-> IF single THEN 0 ELSE 1]>> \o rest
          ELSE rest

\* All lookups are back: setCarts(fetched), setLoading(false).
DetailsSettle ==
  /\ details.pc = "loading"
  /\ \A i \in 1..Len(details.docs) : details.docs[i].read
  /\ details' = [details EXCEPT !.pc = "ready",
                                !.carts = Fetched(details.ids, details.docs, details.single)]
  /\ UNCHANGED <<views, calc, catalog, db, nextSession, screens, edits, ui>>

\* A toggle that leaves the other candidates as they are.
toggleCart_TogglesOne(id) ==
  /\ details.pc = "ready"
  /\ \E k \in 1..Len(details.carts) : details.carts[k].id = id
  /\ details' = [details EXCEPT !.carts =
        [k \in 1..Len(details.carts) |->
           LET c == details.carts[k]
           IN IF c.id = id
              THEN [c EXCEPT !.quantity = IF c.quantity > 0 THEN 0 ELSE 1]
              ELSE c]]
  /\ UNCHANGED <<views, calc, catalog, db, nextSession, screens, edits, ui>>

\* Details.screen.tsx:112-115 toggles the one candidate;
\* Registration.screen.tsx:1085-1087 also sets every other candidate to 0.
toggleCart(id) ==
  /\ details.pc = "ready"
  /\ \E k \in 1..Len(details.carts) : details.carts[k].id = id
  /\ details' = [details EXCEPT !.carts =
        [k \in 1..Len(details.carts) |->
           LET c == details.carts[k]
           IN IF c.id = id
              THEN [c EXCEPT !.quantity = IF c.quantity > 0 THEN 0 ELSE 1]
              ELSE IF details.single THEN [c EXCEPT !.quantity = 0] ELSE c]]
  /\ UNCHANGED <<views, calc, catalog, db, nextSession, screens, edits, ui>>

RECURSIVE SelectedIds(_)
\* carts.filter(c => c.quantity > 0).map(c => c.id)
SelectedIds(cs) ==
  IF cs = <<>> THEN <<>>
  ELSE IF Head(cs).quantity > 0 THEN <<Head(cs).id>> \o SelectedIds(Tail(cs))
       ELSE SelectedIds(Tail(cs))

\* The Save button of the mounted details screen, shown once loading is over:
\* Details.screen.tsx:118-135 saves the dates, Registration.screen.tsx:1094-1112
\* the dates, the add-ons and the selected candidates.
DetailsSave(d, selectedAddons) ==
  /\ details.pc \in {"ready", "failed"}
  /\ IF details.single
     THEN handleSaveSelection(details.sid, d, selectedAddons, SelectedIds(details.carts))
     ELSE handleSave(details.sid, d)

\* ----------------------------------------------------------- review screen
\* Review.screen.tsx:54-135: load() throws when the session is missing, when
\* partialBooking.carts is no array, and when any cart document is missing;
\* only a complete load reaches setCarts.
ReviewLines(ids) ==
  LinesOf(ids, [i \in 1..Len(ids) |-> carts[ids[i]]])

ReviewLoad(sid) ==
  /\ UNCHANGED <<views, details, calc, catalog, db, nextSession, fin, card, edits>>
  /\ IF /\ sessions[sid].exists
        /\ sessions[sid].hasCarts
        /\ \A i \in 1..Len(sessions[sid].carts) : carts[sessions[sid].carts[i]].exists
     THEN /\ review' = [NoReview EXCEPT !.sid = sid, !.loading = FALSE,
                                        !.carts = ReviewLines(sessions[sid].carts)]
          /\ UNCHANGED ui
     ELSE /\ review' = [NoReview EXCEPT !.sid = sid, !.loading = FALSE]
          /\ ui' = Alert("Error")

\* Review.screen.tsx:145-149: the fees the review screen renders.
ReviewTotals == Totals(review.carts)

\* ----------------------------------------------------- registration screen
\* Registration.screen.tsx:35-56: createUserWithEmailAndPassword makes an
\* account with a user id nothing has used yet, and set() without merge stores
\* a profile that holds the payload (email stands for email, phone and
\* createdAt) and no other field.
EmailInputs == {"", "ann@example.com"}
handleContinue(uid, email) ==
  /\ email # ""                                          \* if (!email || !phone) return
  /\ ~customers[uid].exists
  /\ \A s \in SessionIds : sessions[s].exists => sessions[s].customerId # uid
  /\ \A b \in 1..Len(bookings) : bookings[b].customerId # uid
  /\ \/ /\ customers' = [customers EXCEPT ![uid] =
              [exists |-> TRUE, firstName |-> Absent, lastName |-> Absent,
               address |-> Absent, email |-> email]]
        /\ UNCHANGED ui
     \/ /\ ui' = Alert("Registration failed")
        /\ UNCHANGED customers
  /\ UNCHANGED <<views, details, calc, catalog, sessions, nextSession, bookings, payments,
                 screens, edits>>

\* ---------------------------------------------------------- payment screen
\* Checks that let a form through without the two agreements.
ConfirmChecks_SkipsAgreements(uid, sid, firstName, lastName, rental, rules) ==
  IF uid = NoUser THEN "Not signed in"
  ELSE IF sid = 0 THEN "Missing session"
  ELSE IF Trim(firstName) = "" \/ Trim(lastName) = "" THEN "Missing info"
  ELSE IF ~sessions[sid].exists THEN "Booking failed"
  ELSE IF ~sessions[sid].hasCarts \/ Len(sessions[sid].carts) = 0 THEN "Booking failed"
  ELSE "ok"

\* Payment.screen.tsx:152-172: the synchronous checks and the session read.
ConfirmChecks(uid, sid, firstName, lastName, rental, rules) ==
  IF uid = NoUser THEN "Not signed in"
  ELSE IF sid = 0 THEN "Missing session"
  ELSE IF Trim(firstName) = "" \/ Trim(lastName) = "" THEN "Missing info"
  ELSE IF ~rental \/ ~rules THEN "Need agreements"
  ELSE IF ~sessions[sid].exists THEN "Booking failed"
  ELSE IF ~sessions[sid].hasCarts \/ Len(sessions[sid].carts) = 0 THEN "Booking failed"
  ELSE "ok"

handleConfirm(uid, sid, firstName, lastName, address, rental, rules, saveCard) ==
  /\ fin.pc = "idle"                       \* the button is disabled while submitting
  /\ Len(bookings) < MaxBookings
  /\ UNCHANGED <<views, details, calc, catalog, db, nextSession, review, card, edits>>
  /\ LET verdict == ConfirmChecks(uid, sid, firstName, lastName, rental, rules)
     IN IF verdict # "ok"
        THEN /\ ui' = Alert(verdict)
             /\ UNCHANGED fin
        ELSE /\ fin' = [pc |-> "carts", uid |-> uid, sid |-> sid,
                        carts |-> sessions[sid].carts,
                        addons |-> sessions[sid].addons,
                        dates |-> sessions[sid].dates,
                        docs |-> [i \in 1..Len(sessions[sid].carts) |-> Pending],
                        firstName |-> firstName, lastName |-> lastName,
                        address |-> address, rental |-> rental, rules |-> rules,
                        saveCard |-> saveCard]
             /\ UNCHANGED ui

\* Payment.screen.tsx:175-177: one of the parallel catalog reads settles.
ConfirmGetCart(i) ==
  /\ fin.pc = "carts"
  /\ i \in 1..Len(fin.docs)
  /\ ~fin.docs[i].read
  /\ fin' = [fin EXCEPT !.docs[i] =
               [read |-> TRUE, exists |-> carts[fin.carts[i]].exists,
                daily_price |-> IF carts[fin.carts[i]].exists
                                THEN carts[fin.carts[i]].daily_price ELSE 0]]
  /\ UNCHANGED <<views, details, calc, catalog, db, nextSession, review, card, edits, ui>>

\* Payment.screen.tsx:267-272: a read or the commit rejected.
ConfirmError ==
  /\ fin.pc = "carts"
  /\ fin' = IdleFin
  /\ ui' = Alert("Booking failed")
  /\ UNCHANGED <<views, details, calc, catalog, db, nextSession, review, card, edits>>

\* Payment.screen.tsx:205-221: set(customerRef, {...}, {merge: true})
CustomerUpsert(old, f) ==
  [exists |-> TRUE, firstName |-> Trim(f.firstName), lastName |-> Trim(f.lastName),
   address |-> OrNull(f.address),
   email |-> IF old.exists THEN old.email ELSE Absent]    \* not in the payload

\* Payment.screen.tsx:223-235
BookingDoc(f, lines) ==
  [customerId |-> f.uid, status |-> "confirmed", sessionId |-> f.sid,
   carts |-> lines, totals |-> Totals(lines),
   addons |-> f.addons, dates |-> f.dates]

\* Payment.screen.tsx:245-263
\* String.slice(-4)
LastFour(chars) ==
  SubSeq(chars, IF Len(chars) > 4 THEN Len(chars) - 3 ELSE 1, Len(chars))

\* Card fields that keep the whole card number.
CardFields_KeepsNumber(c) ==
  [method |-> IF c.cardBrand # "" THEN c.cardBrand ELSE "card",
   last4 |-> IF c.cardMasked # <<>> THEN LastFour(c.cardMasked)
             ELSE IF c.cardNumberInput # <<>> THEN c.cardNumberInput
             ELSE <<>>,                                   \* null
   brand |-> OrNull(c.cardBrand),
   expiry |-> IF c.expiryInput # "" THEN c.expiryInput ELSE OrNull(c.cardExpiry)]

\* Payment.screen.tsx:252-259: method, last4, brand, expiry
CardFields(c) ==
  [method |-> IF c.cardBrand # "" THEN c.cardBrand ELSE "card",
   last4 |-> IF c.cardMasked # <<>> THEN LastFour(c.cardMasked)
             ELSE IF c.cardNumberInput # <<>> THEN LastFour(c.cardNumberInput)
             ELSE <<>>,                                   \* null
   brand |-> OrNull(c.cardBrand),
   expiry |-> IF c.expiryInput # "" THEN c.expiryInput ELSE OrNull(c.cardExpiry)]

\* A payment record whose amount leaves the deposit out.
PaymentDoc_WithoutDeposit(f, bookingId, total) ==
  [customerId |-> f.uid, sessionId |-> f.sid, bookingId |-> bookingId,
   amount |-> total - Deposit, status |-> "saved", card |-> CardFields(card)]

PaymentDoc(f, bookingId, total) ==
  [customerId |-> f.uid, sessionId |-> f.sid, bookingId |-> bookingId,
   amount |-> total, status |-> "saved", card |-> CardFields(card)]

\* A session update that stores the id after the new booking's.
SessionBooked_WrongRef(old, bookingId) ==
  [old EXCEPT !.status = "booked", !.bookingRef = bookingId + 1]

\* Payment.screen.tsx:237-243: update() of three fields of the session.
SessionBooked(old, bookingId) ==
  [old EXCEPT !.status = "booked", !.bookingRef = bookingId]

\* A finalizer that writes a rebooked session's booking over its earlier one.
ConfirmCommit_OverwritesBooking ==
  /\ fin.pc = "carts"
  /\ \A i \in 1..Len(fin.docs) : fin.docs[i].read
  /\ sessions[fin.sid].exists
  /\ LET lines == LinesOf(fin.carts, fin.docs)
         earlier == sessions[fin.sid].bookingRef
         bookingId == IF earlier = 0 THEN Len(bookings) + 1 ELSE earlier
         booking == BookingDoc(fin, lines)
     IN /\ customers' = [customers EXCEPT ![fin.uid] = CustomerUpsert(@, fin)]
        /\ bookings' = IF earlier = 0 THEN Append(bookings, booking)
                       ELSE [bookings EXCEPT ![earlier] = booking]
        /\ sessions' = [sessions EXCEPT ![fin.sid] = SessionBooked(@, bookingId)]
        /\ payments' = IF fin.saveCard
                       THEN Append(payments, PaymentDoc(fin, bookingId, booking.totals.total))
                       ELSE payments
        /\ ui' = Navigate("ConfirmationScreen", bookingId)
  /\ fin' = IdleFin
  /\ UNCHANGED <<views, details, calc, catalog, nextSession, review, card, edits>>

\* A finalizer that issues its writes one by one instead of in a batch: the
\* booking and the profile land although the session update is rejected.
ConfirmCommit_WritesOneByOne ==
  /\ fin.pc = "carts"
  /\ \A i \in 1..Len(fin.docs) : fin.docs[i].read
  /\ LET lines == LinesOf(fin.carts, fin.docs)
         bookingId == Len(bookings) + 1
         booking == BookingDoc(fin, lines)
         found == sessions[fin.sid].exists
     IN /\ customers' = [customers EXCEPT ![fin.uid] = CustomerUpsert(@, fin)]
        /\ bookings' = Append(bookings, booking)
        /\ sessions' = IF found
                       THEN [sessions EXCEPT ![fin.sid] = SessionBooked(@, bookingId)]
                       ELSE sessions
        /\ payments' = IF found /\ fin.saveCard
                       THEN Append(payments, PaymentDoc(fin, bookingId, booking.totals.total))
                       ELSE payments
        /\ ui' = IF found THEN Navigate("ConfirmationScreen", bookingId)
                 ELSE Alert("Booking failed")
  /\ fin' = IdleFin
  /\ UNCHANGED <<views, details, calc, catalog, nextSession, review, card, edits>>

\* Payment.screen.tsx:202-266: the batch and its commit.  The commit applies
\* every write or none; update() makes it fail when the session is missing.
ConfirmCommit ==
  /\ fin.pc = "carts"
  /\ \A i \in 1..Len(fin.docs) : fin.docs[i].read
  /\ sessions[fin.sid].exists
  /\ LET lines == LinesOf(fin.carts, fin.docs)
         bookingId == Len(bookings) + 1
         booking == BookingDoc(fin, lines)
     IN /\ customers' = [customers EXCEPT ![fin.uid] = CustomerUpsert(@, fin)]
        /\ bookings' = Append(bookings, booking)
        /\ sessions' = [sessions EXCEPT ![fin.sid] = SessionBooked(@, bookingId)]
        /\ payments' = IF fin.saveCard
                       THEN Append(payments, PaymentDoc(fin, bookingId, booking.totals.total))
                       ELSE payments
        /\ ui' = Navigate("ConfirmationScreen", bookingId)
  /\ fin' = IdleFin
  /\ UNCHANGED <<views, details, calc, catalog, nextSession, review, card, edits>>

\* ------------------------------------------------------------ payment form
\* What the payment screen can hold when Confirm is pressed: every complete
\* form, and every form with one of the checked fields left wrong.
Form(uid, firstName, lastName, address, rental, rules, saveCard) ==
  [uid |-> uid, firstName |-> firstName, lastName |-> lastName, address |-> address,
   rental |-> rental, rules |-> rules, saveCard |-> saveCard]

ConfirmInputs ==
  {Form("u1", "Ann", "Ann", "", TRUE, TRUE, s) : s \in BOOLEAN}
  \cup {Form("u2", "Ann", "Ann", a, TRUE, TRUE, TRUE) : a \in AddressInputs \ {""}}
  \cup {Form(NoUser, "Ann", "Ann", "", TRUE, TRUE, FALSE)}
  \cup {Form("u1", n, "Ann", "", TRUE, TRUE, FALSE) : n \in NameInputs}
  \cup {Form("u1", "Ann", n, "", TRUE, TRUE, FALSE) : n \in NameInputs}
  \cup {Form("u1", "Ann", "Ann", "", r[1], r[2], FALSE) : r \in BOOLEAN \X BOOLEAN}

\* ------------------------------------------------------------ fee panel
\* The priced items a fee computation can be given: prices in hundredths
\* (0.10, 0.20, 0.30, 0.35, 45.00, 72.00) with a quantity each.
MaxItems == 3
MaxQty == 2
PricePool == {10, 20, 30, 35, 4500, 7200}
ItemLists ==
  UNION {[1..n -> [hundredths : PricePool, qty : 1..MaxQty]] : n \in 0..MaxItems}

\* The `carts` state of the review screen for such a list.
ReviewCarts(items) ==
  [i \in 1..Len(items) |->
     [id |-> i, daily_price |-> Decimal64(items[i].hundredths), qty |-> items[i].qty]]

\* cartsForBooking of the finalizer for such a list: const qty = 1.
BookingCarts(items) ==
  [i \in 1..Len(items) |->
     [id |-> i, daily_price |-> Decimal64(items[i].hundredths), qty |-> 1]]

\* Review.screen.tsx:145-149
ReviewFees ==
  /\ fees.review = <<>>
  /\ fees' = [fees EXCEPT !.review = <<Totals64(ReviewCarts(fees.lines))>>]
  /\ UNCHANGED <<priceField, addonsField, flow>>

\* Payment.screen.tsx:179-200
ConfirmTotals ==
  /\ fees.final = <<>>
  /\ fees' = [fees EXCEPT !.final = <<Totals64(BookingCarts(fees.lines))>>]
  /\ UNCHANGED <<priceField, addonsField, flow>>

\* An "always recompute": the stored totals are not looked at.
ShownTotals_AlwaysComputed(b) ==
  LET computed == Totals64([k \in 1..Len(b.carts) |->
                     [daily_price |-> IF b.carts[k].daily_price = <<>> THEN Zero64
                                      ELSE Decimal64(b.carts[k].daily_price[1]),
                      qty |-> IF b.carts[k].qty \in {<<>>, <<0>>} THEN 1
                              ELSE b.carts[k].qty[1]]])
  IN [f \in {"base", "tax", "deposit", "total"} |-> ToFixed2(computed[f])]

\* Confirmation.screen.tsx:127-133 and 193-196: each amount is the stored one
\* when typeof says it is a number and is computed otherwise, the base from the
\* line items (a missing price counts 0, a missing or zero quantity 1) and the
\* others from the amounts chosen before them; each is printed with toFixed(2),
\* kept here as the number the printed numeral denotes.
ShownTotals(b) ==
  LET Stored(f) == Decimal64(b.totals[f][1])
      computedBase == Sum64([k \in 1..Len(b.carts) |->
                        [daily_price |-> IF b.carts[k].daily_price = <<>> THEN Zero64
                                         ELSE Decimal64(b.carts[k].daily_price[1]),
                         qty |-> IF b.carts[k].qty \in {<<>>, <<0>>} THEN 1
                                 ELSE b.carts[k].qty[1]]])
      base == IF b.totals.base # <<>> THEN Stored("base") ELSE computedBase
      tax == IF b.totals.tax # <<>> THEN Stored("tax") ELSE ToFixed2(Mul64(base, Tenth64))
      deposit == IF b.totals.deposit # <<>> THEN Stored("deposit") ELSE Deposit64
      total == IF b.totals.total # <<>> THEN Stored("total")
               ELSE ToFixed2(Add64(Add64(base, tax), deposit))
  IN [base |-> ToFixed2(base), tax |-> ToFixed2(tax), deposit |-> ToFixed2(deposit),
      total |-> ToFixed2(total)]

\* Confirmation.screen.tsx:116-133: the screen renders the booking it holds.
ConfirmationTotals ==
  /\ fees.shown = <<>>
  /\ fees' = [fees EXCEPT !.shown = <<ShownTotals(fees.booking)>>]
  /\ UNCHANGED <<priceField, addonsField, flow>>

\* The bookings the confirmation screen may be opened on: up to MaxLines line
\* items, each with or without a price and a quantity (a bare id has neither),
\* and totals of which any part may be missing.
MaxLines == 2
StoredLines ==
  UNION {[1..n -> [daily_price : {<<>>, <<4500>>, <<7200>>}, qty : {<<>>, <<1>>, <<2>>}]] :
           n \in 0..MaxLines}
StoredTotals ==
  [base : {<<>>, <<10000>>, <<11700>>}, tax : {<<>>, <<1170>>, <<2500>>},
   deposit : {<<>>, <<5000>>, <<0>>}, total : {<<>>, <<17870>>, <<10000>>}]

InitShown ==
  /\ InitStore /\ priceField = NoPrice /\ addonsField = NoLabels
  /\ fees \in {[NoFees EXCEPT !.booking = [carts |-> c, totals |-> t]] :
                 c \in StoredLines, t \in StoredTotals}

SpecShown == InitShown /\ [][ConfirmationTotals]_vars

InitPricing ==
  /\ InitStore /\ priceField = NoPrice /\ addonsField = NoLabels
  /\ fees \in {[NoFees EXCEPT !.lines = l] : l \in ItemLists}

NextPricing == ReviewFees \/ ConfirmTotals

SpecPricing == InitPricing /\ [][NextPricing]_vars

\* ------------------------------------------------------------ specification
Created == 1..nextSession        \* the session ids a route can carry

Next ==
  \/ \E id \in CartIds, p \in PriceInputs : CatalogSetPrice(id, p)
  \/ \E id \in CartIds : CatalogDelete(id)
  \/ \E sid \in Created : SessionDelete(sid)
  \/ \E uid \in Users \cup {NoUser}, selected \in Selections :
       onNext(uid, selected) /\ UNCHANGED landing
  \/ \E sid \in Created, d \in DateInputs :
       handleSave(sid, d) /\ edits' <= MaxEdits
  \/ \E sid \in {0} \cup Created, selected \in AddonInputs :
       onSave(sid, selected) /\ edits' <= MaxEdits
  \/ \E sid \in Created, d \in DateInputs, selected \in AddonInputs :
       \E picked \in SelectableCarts(sid) :
         handleSaveSelection(sid, d, selected, picked) /\ edits' <= MaxEdits
  \/ \E in \in ConfirmInputs, sid \in {0} \cup Created :
       handleConfirm(in.uid, sid, in.firstName, in.lastName, in.address,
                     in.rental, in.rules, in.saveCard)
  \/ \E i \in 1..Cardinality(CartIds) : ConfirmGetCart(i)
  \/ ConfirmError
  \/ ConfirmCommit

Spec == Init /\ [][Next]_vars

\* The flow with the review screen mounted on a session; the payment form is
\* a complete one of the session's customer.
NextReview ==
  \/ \E id \in CartIds, p \in PriceInputs : CatalogSetPrice(id, p)
  \/ \E id \in CartIds : CatalogDelete(id)
  \/ \E sid \in Created : SessionDelete(sid)
  \/ \E uid \in {"u1", NoUser}, selected \in Selections :
       onNext(uid, selected) /\ UNCHANGED landing
  \/ \E sid \in Created, d \in DateInputs :
       handleSave(sid, d) /\ edits' <= MaxEdits
  \/ \E sid \in {0} \cup Created, selected \in AddonInputs :
       onSave(sid, selected) /\ edits' <= MaxEdits
  \/ \E sid \in Created, d \in DateInputs, selected \in AddonInputs :
       \E picked \in SelectableCarts(sid) :
         handleSaveSelection(sid, d, selected, picked) /\ edits' <= MaxEdits
  \/ \E sid \in {0} \cup Created, saveCard \in BOOLEAN :
       handleConfirm("u1", sid, "Ann", "Ann", "", TRUE, TRUE, saveCard)
  \/ \E i \in 1..Cardinality(CartIds) : ConfirmGetCart(i)
  \/ ConfirmError
  \/ ConfirmCommit
  \/ \E sid \in Created : ReviewLoad(sid)

SpecReview == Init /\ [][NextReview]_vars

\* The flow up to the review screen, with the details screen mounted.
MaxDraftEdits == 2      \* successful writes of the draft in this part of the flow
NextDetails ==
  \/ \E id \in CartIds : CatalogDelete(id)
  \/ \E sid \in Created : SessionDelete(sid)
  \/ \E uid \in Users \cup {NoUser}, selected \in Selections : onNext(uid, selected) /\ UNCHANGED landing
  \/ \E sid \in Created, single \in BOOLEAN : DetailsMount(sid, single)
  \/ \E i \in 1..Cardinality(CartIds) : DetailsGetCart(i)
  \/ DetailsSettle
  \/ \E id \in CartIds : toggleCart(id)
  \/ \E d \in DateInputs, selected \in AddonInputs :
       DetailsSave(d, selected) /\ edits' <= MaxDraftEdits
  \/ \E sid \in {0} \cup Created, selected \in AddonInputs :
       onSave(sid, selected) /\ edits' <= MaxDraftEdits
  \/ \E sid \in Created : ReviewLoad(sid)

SpecDetails == Init /\ [][NextDetails]_vars

\* ------------------------------------------------------------ card inputs
\* What the payment screen can hold in its card fields when Confirm is
\* pressed, typed or prefilled from the last saved payment.
CardNumbers ==
  {<<>>, <<"4", "2">>, <<"1", "1", "4", "2", "4", "2">>, <<"9", "9", "4", "2", "4", "2">>,
   <<"1", "1", "0", "0", "0", "7">>}
CardInputs ==
  [cardMasked : {<<>>, <<"*", "*", " ", "4", "2", "4", "2">>},
   cardBrand : {"", "Visa"}, cardExpiry : {""},
   cardNumberInput : CardNumbers, nameOnCardInput : {"", "Ann Lee"},
   expiryInput : {"", "04/28"}, cvvInput : {"", "123"}]

CardForms == {Form("u1", "Ann", "Ann", "", TRUE, TRUE, s) : s \in BOOLEAN}

InitCard ==
  /\ InitFlow /\ fees = NoFees /\ priceField = NoPrice /\ addonsField = NoLabels
  /\ card \in CardInputs

NextCard ==
  \/ \E selected \in Selections : onNext("u1", selected) /\ UNCHANGED landing
  \/ \E in \in CardForms, sid \in Created :
       handleConfirm(in.uid, sid, in.firstName, in.lastName, in.address,
                     in.rental, in.rules, in.saveCard)
  \/ \E i \in 1..Cardinality(CartIds) : ConfirmGetCart(i)
  \/ ConfirmError
  \/ ConfirmCommit

SpecCard == InitCard /\ [][NextCard]_vars

\* --------------------------------------------------------------- profiles
\* Registration, then finalizations whose forms differ in the optional fields.
ProfileForms ==
  {Form(u, "Ann", "Ann", a, TRUE, TRUE, FALSE) : u \in Users, a \in AddressInputs}

NextProfile ==
  \/ \E uid \in Users, email \in EmailInputs : handleContinue(uid, email)
  \/ \E uid \in Users, selected \in Selections : onNext(uid, selected) /\ UNCHANGED landing
  \/ \E in \in ProfileForms, sid \in Created :
       handleConfirm(in.uid, sid, in.firstName, in.lastName, in.address,
                     in.rental, in.rules, in.saveCard)
  \/ \E i \in 1..Cardinality(CartIds) : ConfirmGetCart(i)
  \/ ConfirmError
  \/ ConfirmCommit

SpecProfile == Init /\ [][NextProfile]_vars

\* ---------------------------------------------------- stored add-on lists
MaxDocs == 2
Cooler == <<"C", "o", "o", "l", "e", "r">>
RainCover == <<"R", "a", "i", "n", " ", "C", "o", "v", "e", "r">>
LabelLists ==
  {<<>>, <<Cooler>>, <<Cooler, RainCover>>, <<RainCover, Cooler>>,
   <<Cooler, Cooler>>, << <<" ">> \o Cooler \o <<" ">>, <<>> >>}

RECURSIVE Joined(_, _)
\* Array.prototype.join
Joined(items, sep) ==
  IF items = <<>> THEN <<>>
  ELSE IF Len(items) = 1 THEN items[1]
  ELSE items[1] \o sep \o Joined(Tail(items), sep)

\* The four ways a catalog document stores the list `labels`: a native array,
\* a map with the labels as values, JSON.stringify of the array, and the
\* labels separated by ", " between brackets.
Encodings == {"array", "map", "json", "bracketed"}
Encode(enc, labels) ==
  CASE enc = "array" -> [kind |-> "array", items |-> labels]
    [] enc = "map" -> [kind |-> "map", items |-> labels]
    [] enc = "json" ->
         [kind |-> "string",
          chars |-> <<"[">> \o Joined([k \in 1..Len(labels) |->
                                        <<"\"">> \o labels[k] \o <<"\"">>], <<",">>)
                      \o <<"]">>]
    [] OTHER ->
         [kind |-> "string",
          chars |-> <<"[">> \o Joined(labels, <<",", " ">>) \o <<"]">>]

\* AddOns.screen.tsx:82-140: the labels of the session's items, then the
\* labels the session has saved.
AddOnsLoad ==
  /\ addonsField.addOns = <<>>
  /\ addonsField' = [addonsField EXCEPT !.addOns =
        <<AddAll(AddOnsOffered(addonsField.stored), parseAddonsField(addonsField.saved))>>]
  /\ UNCHANGED <<fees, priceField, flow>>

\* Registration.screen.tsx:1038-1081
DetailsLoadAddOns ==
  /\ addonsField.details = <<>>
  /\ addonsField' = [addonsField EXCEPT !.details = <<DetailsOffered(addonsField.stored)>>]
  /\ UNCHANGED <<fees, priceField, flow>>

InitLabels ==
  /\ InitStore /\ fees = NoFees /\ priceField = NoPrice
  /\ \E n \in 0..MaxDocs :
       \E lists \in [1..n -> LabelLists], encs \in [1..n -> Encodings] :
         \E saved \in {<<>>, <<Cooler>>} :
           addonsField = [NoLabels EXCEPT
                            !.lists = lists,
                            !.stored = [i \in 1..n |-> Encode(encs[i], lists[i])],
                            !.saved = IF saved = <<>> THEN @
                                      ELSE [kind |-> "array", items |-> saved]]

NextLabels == AddOnsLoad \/ DetailsLoadAddOns

SpecLabels == InitLabels /\ [][NextLabels]_vars

\* ------------------------------------------------------ stored price values
MaxChars == 3
PriceChars == {"$", ",", ".", "-", " ", "0", "5", "7"}
StoredPrices ==
  {[kind |-> "string", chars |-> c] :
     c \in UNION {[1..n -> PriceChars] : n \in 0..MaxChars}}
  \cup {[kind |-> "string", chars |-> c] :
          c \in {<<"$", "1", ",", "2", "3", "4", ".", "5", "0">>, <<"7", "2">>,
                 <<"7", "2", ".", "0", "0">>, <<"1", ".", "2", ".", "3">>}}
  \cup {[kind |-> "number", neg |-> s, hundredths |-> h] :
          s \in BOOLEAN, h \in {0, 5, 50, 4500, 7200, 7250, 123450}}
  \cup {[kind |-> "null"], [kind |-> "undefined"]}

\* Review.screen.tsx:77
ReviewNormalize ==
  /\ priceField.review = <<>>
  /\ priceField' = [priceField EXCEPT !.review = <<NormalizePrice(priceField.stored)>>]
  /\ UNCHANGED <<fees, addonsField, flow>>

\* Payment.screen.tsx:184-185
ConfirmNormalize ==
  /\ priceField.final = <<>>
  /\ priceField' = [priceField EXCEPT !.final = <<NormalizePrice(priceField.stored)>>]
  /\ UNCHANGED <<fees, addonsField, flow>>

InitNormalize ==
  /\ InitStore /\ fees = NoFees /\ addonsField = NoLabels
  /\ priceField \in {[NoPrice EXCEPT !.stored = s] : s \in StoredPrices}

NextNormalize == ReviewNormalize \/ ConfirmNormalize

SpecNormalize == InitNormalize /\ [][NextNormalize]_vars

\* ------------------------------------------- landing screen, its catalog feed
\* Landing.screen.tsx:46-75: the effect subscribes to the carts collection and
\* hands `unsubscribe` to React as its cleanup.  A listener gets the collection
\* once and again after every change, until it is removed or has failed.
LandingMount ==
  /\ ~landing.mounted
  /\ landing' = [NoLanding EXCEPT !.mounted = TRUE, !.listening = TRUE]
  /\ UNCHANGED <<others, details, calc, catalog, db, nextSession, screens, edits, ui>>

\* snap.docs.map(...): a candidate per catalog document, quantity 0.
CatalogRows ==
  LET RECURSIVE Rows(_)
      Rows(ids) == IF ids = <<>> THEN <<>>
                   ELSE (IF carts[Head(ids)].exists
                         THEN <<[id |-> Head(ids), quantity |-> 0]>> ELSE <<>>)
                        \o Rows(Tail(ids))
  IN Rows(<<"A", "B">>)

\* Landing.screen.tsx:50-67: a snapshot event reaches the listener.
LandingSnapshot ==
  /\ landing.listening
  /\ landing.seen # catalogChanges
  /\ landing' = [landing EXCEPT !.carts = CatalogRows, !.loading = FALSE,
                                !.seen = catalogChanges]
  /\ UNCHANGED <<others, details, calc, catalog, db, nextSession, screens, edits, ui>>

\* Landing.screen.tsx:68-72: the listener fails; it gets no event after that.
LandingError ==
  /\ landing.listening
  /\ landing' = [landing EXCEPT !.loading = FALSE, !.listening = FALSE]
  /\ ui' = Alert("Error")
  /\ UNCHANGED <<others, details, calc, catalog, db, nextSession, screens, edits>>

\* An unmount that leaves the listener in place.
LandingUnmount_KeepsListener ==
  /\ landing.mounted
  /\ landing' = [landing EXCEPT !.mounted = FALSE]
  /\ UNCHANGED <<others, details, calc, catalog, db, nextSession, screens, edits, ui>>

\* Landing.screen.tsx:74: React runs the cleanup, which is `unsubscribe`.
LandingUnmount ==
  /\ landing.mounted
  /\ landing' = [landing EXCEPT !.mounted = FALSE, !.listening = FALSE]
  /\ UNCHANGED <<others, details, calc, catalog, db, nextSession, screens, edits, ui>>

\* setCarts(cs => cs.map(c => c.id === id ? {...c, quantity: max(0, q + delta)} : c)),
\* `times` times.
updateQty(cs, id, times) ==
  [k \in 1..Len(cs) |->
     IF cs[k].id = id THEN [cs[k] EXCEPT !.quantity = @ + times] ELSE cs[k]]

\* Landing.screen.tsx:92-95 and 130-135: a tap on the card of `id` queues one
\* increment and calls onNext(id), which builds the selection from the carts
\* of the render the tap happened in and, finding none selected, queues a
\* second increment and takes the tapped id.
LandingTap(uid, id) ==
  /\ landing.mounted /\ ~landing.loading
  /\ \E k \in 1..Len(landing.carts) : landing.carts[k].id = id
  /\ LET inRender == SelectedIds(landing.carts)
     IN /\ onNext(uid, IF inRender = <<>> THEN <<id>> ELSE inRender)
        /\ landing' = [landing EXCEPT !.carts =
              updateQty(@, id, IF inRender = <<>> THEN 2 ELSE 1)]

\* -------------------------------------- confirmation screen, its booking feed
\* Confirmation.screen.tsx:53-81: without a booking id the effect alerts and
\* subscribes to nothing; with one it listens to bookings/{bookingId} and
\* returns () => unsub() as its cleanup.
ConfirmationMount(bookingId) ==
  /\ ~confirmation.mounted
  /\ IF bookingId = 0
     THEN /\ confirmation' = [NoConfirmation EXCEPT !.mounted = TRUE, !.loading = FALSE]
          /\ ui' = Alert("Missing booking")
     ELSE /\ confirmation' = [NoConfirmation EXCEPT !.mounted = TRUE, !.listening = TRUE,
                                                    !.bookingId = bookingId]
          /\ UNCHANGED ui
  /\ UNCHANGED <<landing, payment, addOns, details, calc, catalog, db, nextSession,
                 screens, edits>>

\* Confirmation.screen.tsx:64-72: the snapshot of the booking arrives; bookings
\* do not change, so it is the only one.
ConfirmationSnapshot ==
  /\ confirmation.listening
  /\ ~confirmation.delivered
  /\ confirmation' = [confirmation EXCEPT
        !.delivered = TRUE, !.loading = FALSE,
        !.booking = IF confirmation.bookingId \in 1..Len(bookings)
                    THEN <<bookings[confirmation.bookingId]>> ELSE <<>>]
  /\ UNCHANGED <<landing, payment, addOns, details, calc, catalog, db, nextSession,
                 screens, edits, ui>>

\* Confirmation.screen.tsx:73-77
ConfirmationError ==
  /\ confirmation.listening
  /\ confirmation' = [confirmation EXCEPT !.loading = FALSE, !.listening = FALSE]
  /\ ui' = Alert("Error")
  /\ UNCHANGED <<landing, payment, addOns, details, calc, catalog, db, nextSession,
                 screens, edits>>

\* Confirmation.screen.tsx:80
ConfirmationUnmount ==
  /\ confirmation.mounted
  /\ confirmation' = [confirmation EXCEPT !.mounted = FALSE, !.listening = FALSE]
  /\ UNCHANGED <<landing, payment, addOns, details, calc, catalog, db, nextSession,
                 screens, edits, ui>>

\* The flow seen from its two subscribing screens: the catalog changes under
\* the landing screen, taps create the session, and a finalization creates the
\* booking the confirmation screen is opened on.
MaxQuantity == 2        \* the quantity taps may bring one card to
FeedForms == {Form("u1", "Ann", "Ann", "", TRUE, TRUE, FALSE)}

NextFeeds ==
  \/ \E id \in CartIds, p \in PriceInputs : CatalogSetPrice(id, p)
  \/ \E id \in CartIds : CatalogDelete(id)
  \/ LandingMount
  \/ LandingSnapshot
  \/ LandingError
  \/ \E uid \in {"u1", NoUser}, id \in CartIds :
       LandingTap(uid, id)
       /\ \A k \in 1..Len(landing'.carts) : landing'.carts[k].quantity <= MaxQuantity
  \/ LandingUnmount
  \/ \E in \in FeedForms, sid \in Created :
       handleConfirm(in.uid, sid, in.firstName, in.lastName, in.address,
                     in.rental, in.rules, in.saveCard)
  \/ \E i \in 1..Cardinality(CartIds) : ConfirmGetCart(i)
  \/ ConfirmCommit
  \/ \E bookingId \in 0..Len(bookings) : ConfirmationMount(bookingId)
  \/ ConfirmationSnapshot
  \/ ConfirmationError
  \/ ConfirmationUnmount

SpecFeeds == Init /\ [][NextFeeds]_vars

\* ---------------------------------------------- review screen, await by await
\* Review.screen.tsx:54-135 again, one step per await (ReviewLoad above is the
\* same load run through setCarts in one step).  The effect has no cleanup and
\* load() no flag: its setters are called whether or not the screen is still
\* mounted.  A screen is mounted again only after its earlier load has ended.
ReviewMount(sid) ==
  /\ ~review.mounted
  /\ review.pc \in {"unmounted", "done"}
  /\ review' = [NoReview EXCEPT !.sid = sid, !.mounted = TRUE, !.pc = "session"]
  /\ UNCHANGED <<views, details, calc, catalog, db, nextSession, fin, card, edits, ui>>

\* Review.screen.tsx:58-69, 107 and 126-131; uid is auth().currentUser.
ReviewGetSession(uid) ==
  /\ review.pc = "session"
  /\ IF sessions[review.sid].exists /\ sessions[review.sid].hasCarts
     THEN /\ review' = [review EXCEPT !.pc = "carts", !.ids = sessions[review.sid].carts,
                          !.owner = IF sessions[review.sid].customerId = Absent THEN uid
                                    ELSE sessions[review.sid].customerId]
          /\ UNCHANGED ui
     ELSE /\ review' = [review EXCEPT !.pc = "done", !.loading = FALSE]
          /\ ui' = Alert("Error")
  /\ UNCHANGED <<views, details, calc, catalog, db, nextSession, fin, card, edits>>

\* Review.screen.tsx:72-104: Promise.all settles, then setCarts(fetched).
ReviewGetCarts ==
  /\ review.pc = "carts"
  /\ IF \A i \in 1..Len(review.ids) : carts[review.ids[i]].exists
     THEN /\ review' = [review EXCEPT !.carts = ReviewLines(review.ids),
                          !.pc = IF review.owner = NoUser THEN "done" ELSE "profile",
                          !.loading = IF review.owner = NoUser THEN FALSE ELSE @]
          /\ UNCHANGED ui
     ELSE /\ review' = [review EXCEPT !.pc = "done", !.loading = FALSE]
          /\ ui' = Alert("Error")
  /\ UNCHANGED <<views, details, calc, catalog, db, nextSession, fin, card, edits>>

\* Review.screen.tsx:107-131: setProfile when the customer exists, then
\* setLoading(false).
ReviewGetProfile ==
  /\ review.pc = "profile"
  /\ review' = [review EXCEPT
        !.profile = IF customers[review.owner].exists
                    THEN <<[firstName |-> customers[review.owner].firstName]>> ELSE @,
        !.pc = "done", !.loading = FALSE]
  /\ UNCHANGED <<views, details, calc, catalog, db, nextSession, fin, card, edits, ui>>

ReviewUnmount ==
  /\ review.mounted
  /\ review' = [review EXCEPT !.mounted = FALSE]
  /\ UNCHANGED <<views, details, calc, catalog, db, nextSession, fin, card, edits, ui>>

\* ------------------------------------------------- add-ons screen, its load
\* AddOns.screen.tsx:151-153: the cleanup sets cancelled = true.
AddOnsUnmount ==
  /\ addOns.mounted
  /\ addOns' = [addOns EXCEPT !.mounted = FALSE, !.cancelled = TRUE]
  /\ UNCHANGED <<landing, confirmation, payment, details, calc, catalog, db, nextSession,
                 screens, edits, ui>>

\* AddOns.screen.tsx:37-44 and 149
AddOnsMount(sid) ==
  /\ ~addOns.mounted
  /\ addOns.pc \in {"unmounted", "done"}
  /\ IF sid = 0
     THEN /\ addOns' = [NoAddOns EXCEPT !.mounted = TRUE, !.loading = FALSE, !.pc = "done"]
          /\ ui' = Alert("Missing session")
     ELSE /\ addOns' = [NoAddOns EXCEPT !.mounted = TRUE, !.sid = sid, !.pc = "session"]
          /\ UNCHANGED ui
  /\ UNCHANGED <<landing, confirmation, payment, details, calc, catalog, db, nextSession,
                 screens, edits>>

\* AddOns.screen.tsx:83-104 and 141-146.  The labels of the flow's sessions
\* hold no blank, so parseAddonsField gives their list back.
AddOnsGetSession ==
  /\ addOns.pc = "session"
  /\ LET doc == sessions[addOns.sid]
         cartIds == IF doc.hasCarts THEN doc.carts ELSE <<>>
         existingAddons == doc.addons.items
     IN IF ~doc.exists
        THEN /\ addOns' = [addOns EXCEPT !.pc = "done",
                             !.loading = IF addOns.cancelled THEN @ ELSE FALSE]
             /\ ui' = Alert("Error loading add-ons")
        ELSE /\ UNCHANGED ui
             /\ addOns' =
                  IF cartIds = <<>>
                  THEN [addOns EXCEPT !.pc = "done",
                          !.addons = IF addOns.cancelled THEN @ ELSE AddAll(<<>>, existingAddons),
                          !.loading = IF addOns.cancelled THEN @ ELSE FALSE]
                  ELSE [addOns EXCEPT !.pc = "carts", !.cartIds = cartIds,
                                      !.existingAddons = existingAddons]
  /\ UNCHANGED <<landing, confirmation, payment, details, calc, catalog, db, nextSession,
                 screens, edits>>

\* AddOns.screen.tsx:107-146: Promise.all settles; the catalog documents of
\* the flow hold no add-ons field, so the set is the session's own labels.
AddOnsGetCarts ==
  /\ addOns.pc = "carts"
  /\ addOns' = [addOns EXCEPT !.pc = "done",
                  !.addons = IF addOns.cancelled THEN @
                             ELSE AddAll(<<>>, addOns.existingAddons),
                  !.loading = IF addOns.cancelled THEN @ ELSE FALSE]
  /\ UNCHANGED <<landing, confirmation, payment, details, calc, catalog, db, nextSession,
                 screens, edits, ui>>

\* ------------------------------------------------ payment screen, its prefill
\* Payment.screen.tsx:146-148: the cleanup sets cancelled = true.
PaymentUnmount ==
  /\ payment.mounted
  /\ payment' = [payment EXCEPT !.mounted = FALSE, !.cancelled = TRUE]
  /\ UNCHANGED <<landing, confirmation, addOns, details, calc, catalog, db, nextSession,
                 screens, edits, ui>>

\* Payment.screen.tsx:30-69: a fresh screen; without a user there is no load.
PaymentMount(uid) ==
  /\ ~payment.mounted
  /\ payment.pc \in {"unmounted", "done"}
  /\ payment' = IF uid = NoUser
                THEN [NoPayment EXCEPT !.mounted = TRUE, !.fetching = FALSE, !.pc = "done"]
                ELSE [NoPayment EXCEPT !.mounted = TRUE, !.uid = uid, !.pc = "customer"]
  /\ card' = NoCard
  /\ UNCHANGED <<landing, confirmation, addOns, details, calc, catalog, db, nextSession,
                 fin, review, edits, ui>>

\* cd.x ?? p.x
StoredOr(stored, current) == IF stored \in {Absent, Null} THEN current ELSE stored

\* Payment.screen.tsx:76-101: the profile arrives and the sorted query leaves.
PaymentGetCustomer ==
  /\ payment.pc = "customer"
  /\ LET cd == customers[payment.uid]
     IN payment' = [payment EXCEPT
          !.personal = IF ~payment.cancelled /\ cd.exists
                       THEN [firstName |-> StoredOr(cd.firstName, @.firstName),
                             address |-> StoredOr(cd.address, @.address)]
                       ELSE @,
          !.pc = "sorted", !.queries = Append(@, "sorted")]
  /\ UNCHANGED <<landing, confirmation, addOns, details, calc, catalog, db, nextSession,
                 screens, edits, ui>>

\* The ids of the customer's payment records; a record's id is its place in
\* `payments`, which is also the order of their createdAt server times.
PaymentsOf(uid) == {k \in 1..Len(payments) : payments[k].customerId = uid}

\* .where('customerId', '==', uid).orderBy('createdAt', 'desc').limit(1)
MostRecent(uid) ==
  IF PaymentsOf(uid) = {} THEN <<>>
  ELSE <<payments[CHOOSE k \in PaymentsOf(uid) : \A j \in PaymentsOf(uid) : j <= k]>>

\* What a rejected query is rejected with: the error's code and whether its
\* message says that the query requires an index.
QueryErrors ==
  {[code |-> "firestore/failed-precondition", requiresIndex |-> TRUE],
   [code |-> "firestore/unavailable", requiresIndex |-> FALSE],
   [code |-> "firestore/permission-denied", requiresIndex |-> FALSE]}

\* Payment.screen.tsx:108-111
needsIndex(err) == err.code = "failed-precondition" \/ err.requiresIndex

\* Payment.screen.tsx:130-141: the card fields are set from the record found,
\* the save-card switch is turned on, and the spinner is taken away: each only
\* when the screen has not been unmounted.
Prefilled(pdoc) ==
  [card EXCEPT
     !.cardMasked = IF pdoc.card.last4 # <<>>                  \* `**** **** **** ${last4}`
                    THEN <<"*", "*", "*", "*", " ", "*", "*", "*", "*", " ",
                           "*", "*", "*", "*", " ">> \o pdoc.card.last4
                    ELSE @,
     !.cardBrand = IF pdoc.card.brand # Null THEN pdoc.card.brand ELSE @,
     !.cardExpiry = IF pdoc.card.expiry # Null THEN pdoc.card.expiry ELSE @]

PaymentLoaded(found) ==
  /\ payment' = [payment EXCEPT
        !.pc = "done", !.paymentDocData = found,
        !.saveCard = IF ~payment.cancelled /\ found # <<>> THEN TRUE ELSE @,
        !.fetching = IF payment.cancelled THEN @ ELSE FALSE]
  /\ card' = IF ~payment.cancelled /\ found # <<>> THEN Prefilled(found[1]) ELSE card

\* Payment.screen.tsx:138-141: the load has thrown; the error is logged.
PaymentFailed ==
  /\ payment' = [payment EXCEPT !.pc = "done",
                                !.fetching = IF payment.cancelled THEN @ ELSE FALSE]
  /\ UNCHANGED card

\* Payment.screen.tsx:95-128: the sorted query settles.
PaymentQuery ==
  /\ payment.pc = "sorted"
  /\ \/ PaymentLoaded(MostRecent(payment.uid))
     \/ \E err \in QueryErrors :
          IF needsIndex(err)
          THEN /\ payment' = [payment EXCEPT !.pc = "unordered", !.error = <<err>>,
                                             !.queries = Append(@, "unordered")]
               /\ UNCHANGED card
          ELSE /\ payment' = [payment EXCEPT !.pc = "done", !.error = <<err>>,
                                  !.fetching = IF payment.cancelled THEN @ ELSE FALSE]
               /\ UNCHANGED card
  /\ UNCHANGED <<landing, confirmation, addOns, details, calc, catalog, db, nextSession,
                 fin, review, edits, ui>>

\* The orders an unordered query can hand a set of records over in.
Orders(ids) ==
  {o \in [1..Cardinality(ids) -> ids] : \A i, j \in DOMAIN o : o[i] = o[j] => i = j}

\* A sort that leaves the records in the order they were fetched in.
SortNewestFirst_Unsorted(ids) == ids

RECURSIVE SortNewestFirst(_)
\* mapped.sort((a, b) => tb - ta): a stable sort by createdAt, newest first.
SortNewestFirst(ids) ==
  IF ids = <<>> THEN <<>>
  ELSE LET newest == CHOOSE i \in 1..Len(ids) :
                       /\ \A j \in 1..Len(ids) : ids[j] <= ids[i]
                       /\ \A j \in 1..(i - 1) : ids[j] # ids[i]
       IN <<ids[newest]>>
          \o SortNewestFirst(SubSeq(ids, 1, newest - 1) \o SubSeq(ids, newest + 1, Len(ids)))

\* Payment.screen.tsx:113-125: the unordered query settles.
PaymentFallback ==
  /\ payment.pc = "unordered"
  /\ \/ \E docs \in Orders(PaymentsOf(payment.uid)) :
          PaymentLoaded(IF docs = <<>> THEN <<>>
                        ELSE <<payments[SortNewestFirst(docs)[1]]>>)
     \/ PaymentFailed
  /\ UNCHANGED <<landing, confirmation, addOns, details, calc, catalog, db, nextSession,
                 fin, review, edits, ui>>

\* Payment.screen.tsx:413-414 and 472-473: the save-card switch.
PaymentSwitch ==
  /\ payment.mounted /\ ~payment.fetching
  /\ payment' = [payment EXCEPT !.saveCard = ~@]
  /\ UNCHANGED <<landing, confirmation, addOns, details, calc, catalog, db, nextSession,
                 screens, edits, ui>>

\* Payment.screen.tsx:428: the card number field.
PaymentType(number) ==
  /\ payment.mounted /\ ~payment.fetching
  /\ card.cardNumberInput # number
  /\ card' = [card EXCEPT !.cardNumberInput = number]
  /\ UNCHANGED <<views, details, calc, catalog, db, nextSession, fin, review, edits, ui>>

\* Payment.screen.tsx:503: Confirm is on the screen once the prefill is over;
\* handleConfirm reads the user, the form and the switch of that render.
PaymentConfirm(sid, address) ==
  /\ payment.mounted /\ ~payment.fetching
  /\ handleConfirm(payment.uid, sid, "Ann", "Ann", address, TRUE, TRUE, payment.saveCard)

\* ------------------------------------------------ the one-shot loads together
\* A draft is created and given add-ons while the add-ons, review and payment
\* screens are mounted, load and are left at any point of their loads.
NextLoads ==
  \/ \E selected \in Selections : onNext("u1", selected) /\ UNCHANGED landing
  \/ \E sid \in Created : SessionDelete(sid)
  \/ \E sid \in Created, selected \in AddonInputs : onSave(sid, selected) /\ edits' <= MaxEdits
  \/ \E sid \in {0} \cup Created : AddOnsMount(sid)
  \/ AddOnsGetSession
  \/ AddOnsGetCarts
  \/ AddOnsUnmount
  \/ \E sid \in Created : ReviewMount(sid)
  \/ \E uid \in {"u1", NoUser} : ReviewGetSession(uid)
  \/ ReviewGetCarts
  \/ ReviewGetProfile
  \/ ReviewUnmount
  \/ \E uid \in {"u1", NoUser} : PaymentMount(uid)
  \/ PaymentGetCustomer
  \/ PaymentQuery
  \/ PaymentFallback
  \/ PaymentUnmount

SpecLoads == Init /\ [][NextLoads]_vars

\* ----------------------------------------------------- prefill and payment
\* Finalizations with the payment screen mounted: each one's prefill finds
\* what the earlier ones have saved.
NextPrefill ==
  \/ \E selected \in {<<"A">>, <<"A", "B">>} : onNext("u1", selected) /\ UNCHANGED landing
  \/ \E uid \in {"u1", NoUser} : PaymentMount(uid)
  \/ PaymentGetCustomer
  \/ PaymentQuery
  \/ PaymentFallback
  \/ PaymentUnmount
  \/ PaymentSwitch
  \/ \E number \in {<<"1", "1", "4", "2", "4", "2">>, <<"1", "1", "0", "0", "0", "7">>} :
       PaymentType(number)
  \/ \E sid \in Created, address \in AddressInputs : PaymentConfirm(sid, address)
  \/ \E i \in 1..Cardinality(CartIds) : ConfirmGetCart(i)
  \/ ConfirmCommit

SpecPrefill == Init /\ [][NextPrefill]_vars

\* =================================================================== claims
SessionState(s) ==
  IF sessions[s].exists THEN <<sessions[s].status, sessions[s].bookingRef>>
  ELSE <<Absent, 0>>

SessionStateNext(s) ==
  IF sessions'[s].exists THEN <<sessions'[s].status, sessions'[s].bookingRef>>
  ELSE <<Absent, 0>>

\* A step that shows every write of one finalization: one more booking, its
\* session booked and pointing at it, the caller's profile stored, and a
\* payment record for that booking exactly when save-card was on.
BatchApplied ==
  /\ Len(bookings') = Len(bookings) + 1
  /\ SubSeq(bookings', 1, Len(bookings)) = bookings
  /\ LET id == Len(bookings')
         b == bookings'[id]
     IN /\ sessions'[b.sessionId].exists
        /\ sessions'[b.sessionId].status = "booked"
        /\ sessions'[b.sessionId].bookingRef = id
        /\ customers'[b.customerId].exists
        /\ customers'[b.customerId].firstName = Trim(fin.firstName)
        /\ IF fin.saveCard
           THEN /\ Len(payments') = Len(payments) + 1
                /\ SubSeq(payments', 1, Len(payments)) = payments
                /\ payments'[Len(payments')].bookingId = id
                /\ payments'[Len(payments')].sessionId = b.sessionId
           ELSE payments' = payments
        /\ ui' = Navigate("ConfirmationScreen", id)

\* A step that shows none of them: no booking, payment or profile changes, and
\* no session becomes booked or changes its booking reference.
BatchNotApplied ==
  /\ bookings' = bookings
  /\ payments' = payments
  /\ customers' = customers
  /\ \A s \in SessionIds :
       SessionStateNext(s) # SessionState(s) => SessionStateNext(s) \in {<<Absent, 0>>, <<"in_progress", 0>>}

\* C1: the finalizer's writes (profile upsert, booking, session update, and
\* the payment record when opted) are visible all together or not at all, in
\* every step, also when the commit fails or the session is deleted between
\* the finalizer's read and its commit.
C1_BatchIsAtomic == [][BatchApplied \/ BatchNotApplied]_vars

\* A first finalization is fully visible (booking, payment, booked session),
\* and a second one is about to commit on a session deleted after its read.
C1_Witness ==
  /\ Len(bookings) = 1
  /\ Len(payments) = 1
  /\ fin.pc = "carts"
  /\ \A i \in 1..Len(fin.docs) : fin.docs[i].read
  /\ ~sessions[fin.sid].exists

\* C2: at most one booking references a given session id; a finalization of
\* a session that is already booked creates no second one.
C2_OneBookingPerSession ==
  \A i, j \in 1..Len(bookings) :
    bookings[i].sessionId = bookings[j].sessionId => i = j

StatusOf(doc) == IF doc.exists THEN doc.status ELSE Absent

\* C3: a session comes into being as 'in_progress' only through creation under
\* a fresh id; a booked session is never set back to 'in_progress'; and the
\* status of a stored session changes only in the step that commits a booking
\* for it, which makes it 'booked'.
C3_StatusOnlyForward ==
  [][\A s \in SessionIds :
       /\ StatusOf(sessions[s]) = "booked" => StatusOf(sessions'[s]) # "in_progress"
       /\ (StatusOf(sessions'[s]) = "in_progress" /\ StatusOf(sessions[s]) # "in_progress")
            => /\ ~sessions[s].exists
               /\ nextSession' = nextSession + 1
               /\ s = nextSession'
       /\ (sessions[s].exists /\ sessions'[s].exists
             /\ sessions'[s].status # sessions[s].status)
            => /\ sessions'[s].status = "booked"
               /\ Len(bookings') = Len(bookings) + 1
               /\ bookings'[Len(bookings')].sessionId = s
               /\ ui' = Navigate("ConfirmationScreen", Len(bookings'))]_vars

\* A booked session whose dates were saved after its booking was committed:
\* the details screen navigated on, the booking holds no dates, the session
\* does, and it is still booked.
C3_Witness ==
  \E s \in SessionIds :
    /\ sessions[s].exists
    /\ sessions[s].status = "booked"
    /\ sessions[s].bookingRef \in 1..Len(bookings)
    /\ sessions[s].dates # NoDates
    /\ bookings[sessions[s].bookingRef].dates = NoDates
    /\ ui = Navigate("AddOnsScreen", s)

\* The preconditions of finalization, stated on the form and the store.
PreconditionFails(f, sid) ==
  \/ IF sid \in SessionIds
     THEN \/ ~sessions[sid].exists
          \/ ~sessions[sid].hasCarts
          \/ sessions[sid].carts = <<>>
     ELSE TRUE
  \/ ~f.rental
  \/ ~f.rules
  \/ Trim(f.firstName) = ""
  \/ Trim(f.lastName) = ""

WritesOfFinalization ==
  \/ bookings' # bookings
  \/ payments' # payments
  \/ customers' # customers
  \/ \E s \in SessionIds : SessionStateNext(s) \notin {SessionState(s), <<Absent, 0>>}

\* C4: a finalization whose session is missing, whose item list is missing or
\* empty, whose agreements are not both accepted or whose trimmed first or
\* last name is empty shows an alert and leaves customers, bookings, sessions
\* and payments as they were, with no finalization left in flight; and any
\* step that does write for a finalization belongs to one whose form passed.
C4_FailedPreconditionWritesNothing ==
  [][/\ \/ /\ ui' \in {Alert("Not signed in"), Alert("Missing session"),
                         Alert("Missing info"), Alert("Need agreements"),
                         Alert("Booking failed")}
             /\ UNCHANGED <<db, fin>>
        \/ fin.pc # "idle"          \* no step of handleConfirm: it starts idle
        \/ ~\E f \in ConfirmInputs, sid \in {0} \cup SessionIds :
               /\ PreconditionFails(f, sid)
               /\ handleConfirm(f.uid, sid, f.firstName, f.lastName, f.address,
                                f.rental, f.rules, f.saveCard)
     /\ (WritesOfFinalization /\ nextSession' = nextSession /\ edits' = edits)
          => /\ fin.pc = "carts"
             /\ fin.rental /\ fin.rules
             /\ Trim(fin.firstName) # "" /\ Trim(fin.lastName) # ""
             /\ fin.carts # <<>>
             /\ sessions[fin.sid].exists]_vars

\* A finalization was refused for its agreements while a session with items
\* was there to be booked, and nothing was written.
C4_Witness ==
  /\ ui = Alert("Need agreements")
  /\ fin = IdleFin
  /\ \E s \in SessionIds : sessions[s].exists /\ sessions[s].status = "in_progress"
                            /\ sessions[s].carts # <<>>
  /\ bookings = <<>> /\ payments = <<>>
  /\ \A u \in Users : ~customers[u].exists

SignedOutForms == {f \in ConfirmInputs : f.uid = NoUser}

\* C5: with nobody signed in, pressing Next on the landing screen and
\* pressing Confirm on the payment screen change no session, booking,
\* customer or payment record and start nothing; and no stored record ever
\* names the missing identity as its customer.
C5_NoIdentityNoWrite ==
  [][/\ \A selected \in Selections :
          onNext(NoUser, selected) => UNCHANGED <<db, nextSession, fin>>
                                      /\ ui' \in {Alert("Not signed in"),
                                                  Alert("Select at least one cart to continue")}
     /\ \A f \in SignedOutForms, sid \in {0} \cup SessionIds :
          handleConfirm(f.uid, sid, f.firstName, f.lastName, f.address,
                        f.rental, f.rules, f.saveCard)
          => UNCHANGED <<db, nextSession, fin>> /\ ui' = Alert("Not signed in")
     /\ \A s \in SessionIds : sessions'[s].exists => sessions'[s].customerId # NoUser
     /\ \A i \in 1..Len(bookings') : bookings'[i].customerId # NoUser
     /\ \A i \in 1..Len(payments') : payments'[i].customerId # NoUser
     /\ fin'.pc = "carts" => fin'.uid # NoUser]_vars

\* The sign-in prompt was shown and the store is still empty.
C5_Witness ==
  /\ ui = Alert("Not signed in")
  /\ nextSession = 0
  /\ \A s \in SessionIds : ~sessions[s].exists
  /\ bookings = <<>> /\ payments = <<>>
  /\ \A u \in Users : ~customers[u].exists
  /\ fin = IdleFin

\* C6: the unit prices a committed booking stores are the ones the finalizer
\* read from the catalog, each read returning the catalog's price at the time
\* of the read, and its base, tax and total follow from those prices; what the
\* review screen loaded earlier plays no part.
C6_PricedAtFinalization ==
  [][/\ Len(bookings') = Len(bookings) + 1
          => LET b == bookings'[Len(bookings')]
             IN /\ \A k \in 1..Len(b.carts) :
                     \E i \in 1..Len(fin.docs) :
                        /\ fin.carts[i] = b.carts[k].id
                        /\ fin.docs[i].read /\ fin.docs[i].exists
                        /\ b.carts[k].daily_price = fin.docs[i].daily_price
                /\ b.totals = Totals(b.carts)
     /\ \A i \in 1..Len(fin'.docs) :
          (fin.pc = "carts" /\ ~fin.docs[i].read /\ fin'.docs[i].read /\ fin'.docs[i].exists)
            => fin'.docs[i].daily_price = carts[fin.carts[i]].daily_price]_vars

\* The review screen loaded an item of the session at one price, the catalog
\* changed, and the session's booking stores the item at the catalog's price.
C6_Witness ==
  /\ Len(bookings) = 1
  /\ review.sid = bookings[1].sessionId
  /\ catalogChanges = 1
  /\ \E k \in 1..Len(bookings[1].carts), r \in 1..Len(review.carts) :
        /\ review.carts[r].id = bookings[1].carts[k].id
        /\ review.carts[r].daily_price # bookings[1].carts[k].daily_price
        /\ carts[review.carts[r].id].exists
        /\ bookings[1].carts[k].daily_price = carts[review.carts[r].id].daily_price

\* C7: a booking that exists keeps its line items and totals in every step:
\* catalog changes, later saves of the session and further finalizations
\* leave them alone.
C7_BookingSnapshotImmutable ==
  [][\A i \in 1..Len(bookings) :
       /\ i <= Len(bookings')
       /\ bookings'[i].carts = bookings[i].carts
       /\ bookings'[i].totals = bookings[i].totals]_vars

\* Two bookings of one session, the catalog repriced in between: the first
\* keeps the old price of an item, the second holds the new one.
C7_Witness ==
  /\ Len(bookings) = 2
  /\ bookings[1].sessionId = bookings[2].sessionId
  /\ \E k \in 1..Len(bookings[1].carts) :
        LET id == bookings[1].carts[k].id
        IN /\ carts[id].exists
           /\ bookings[1].carts[k].daily_price # carts[id].daily_price
           /\ \E m \in 1..Len(bookings[2].carts) :
                 /\ bookings[2].carts[m].id = id
                 /\ bookings[2].carts[m].daily_price = carts[id].daily_price

\* C8: the dates and add-ons a booking stores are those its session holds in
\* the step that commits the booking.
C8_SnapshotAtCommit ==
  [][Len(bookings') = Len(bookings) + 1
       => LET b == bookings'[Len(bookings')]
          IN /\ b.dates = sessions[b.sessionId].dates
             /\ b.addons = sessions[b.sessionId].addons]_vars

\* C9: a stored session is 'booked' exactly when it holds a booking id, and
\* that id names an existing booking whose status is 'confirmed' and whose
\* session id is this session.
C9_BookedIffLinked ==
  \A s \in SessionIds :
    sessions[s].exists =>
      /\ (sessions[s].status = "booked") <=> (sessions[s].bookingRef # 0)
      /\ sessions[s].bookingRef # 0
           => /\ sessions[s].bookingRef \in 1..Len(bookings)
              /\ bookings[sessions[s].bookingRef].status = "confirmed"
              /\ bookings[sessions[s].bookingRef].sessionId = s

\* A session finalized twice points at its second booking, and a draft
\* recreated by the add-ons save after a deletion got booked by a commit.
C9_Witness ==
  \E s \in SessionIds :
    /\ sessions[s].exists
    /\ sessions[s].status = "booked"
    /\ sessions[s].bookingRef = 2
    /\ bookings[1].sessionId = s
    /\ ~sessions[s].hasCarts

\* The fees in hundredths, by exact decimal arithmetic, for a list of items.
ExactFees(items) ==
  Totals([i \in 1..Len(items) |->
            [daily_price |-> items[i].hundredths, qty |-> items[i].qty]])

\* The items as the finalizer prices them: one of each.
OneOfEach(items) == [i \in 1..Len(items) |-> [items[i] EXCEPT !.qty = 1]]

AsNumbers(t) ==
  [base |-> Decimal64(t.base), tax |-> Decimal64(t.tax),
   deposit |-> Decimal64(t.deposit), total |-> Decimal64(t.total)]

Reorderings(items) ==
  {[i \in 1..Len(items) |-> items[p[i]]] :
     p \in {f \in [1..Len(items) -> 1..Len(items)] :
              \A i, j \in 1..Len(items) : f[i] = f[j] => i = j}}

\* C10: the fees the review screen and the finalizer compute for a list of
\* priced items are base = the sum of price x quantity, tax = a tenth of base
\* rounded to two decimals, deposit = 50.00 and total = base + tax + deposit
\* rounded to two decimals, and every permutation of the list gives the same.
C10_FeesAsSpecified ==
  /\ fees.review # <<>>
       => /\ fees.review[1] = AsNumbers(ExactFees(fees.lines))
          /\ \A p \in Reorderings(fees.lines) :
                Totals64(ReviewCarts(p)) = fees.review[1]
  /\ fees.final # <<>>
       => /\ fees.final[1] = AsNumbers(ExactFees(OneOfEach(fees.lines)))
          /\ \A p \in Reorderings(fees.lines) :
                Totals64(BookingCarts(p)) = fees.final[1]

\* The worked example: 72.00 and 45.00 give 117.00, 11.70, 50.00, 178.70.
WorkedExample ==
  Totals64(BookingCarts(<<[hundredths |-> 7200, qty |-> 1],
                          [hundredths |-> 4500, qty |-> 1]>>))
    = AsNumbers([base |-> 11700, tax |-> 1170, deposit |-> 5000, total |-> 17870])

\* For whole amounts the numbers' fees are the exact ones, in any order.
WholeAmountsAgree ==
  (\A i \in 1..Len(fees.lines) : fees.lines[i].hundredths % 100 = 0)
    => C10_FeesAsSpecified

\* The ids of `ids` whose lookup found a document, in the order of `ids`.
KeptIds(ids, found) ==
  LET at == {i \in 1..Len(ids) : found[i]}
  IN [k \in 1..Cardinality(at) |->
        ids[CHOOSE i \in at : Cardinality({j \in at : j < i}) = k - 1]]

IdsOf(items) == [k \in 1..Len(items) |-> items[k].id]

SomeButNotAll(found) ==
  /\ \E i \in DOMAIN found : found[i]
  /\ \E i \in DOMAIN found : ~found[i]

\* The details load gives a candidate for every id whose lookup found a
\* document, in the order of the id list, whatever order the lookups came
\* back in.
DetailsKeepsPresentInOrder ==
  [][(details.pc = "loading" /\ details'.pc = "ready")
       => IdsOf(details'.carts)
            = KeptIds(details.ids, [i \in 1..Len(details.ids) |-> details.docs[i].exists])]_vars

\* C11: when some but not all ids of a session's item list are absent from the
\* catalog, the details load and the review load give exactly the items of
\* the present ids, in the order of the id list, and do not fail.
C11_PartialAbsenceResolved ==
  [][/\ (/\ details.pc = "loading" /\ details'.pc = "ready"
         /\ SomeButNotAll([i \in 1..Len(details.ids) |-> details.docs[i].exists]))
          => IdsOf(details'.carts)
               = KeptIds(details.ids, [i \in 1..Len(details.ids) |-> details.docs[i].exists])
     /\ \A sid \in Created :
          LET ids == sessions[sid].carts
              found == [i \in 1..Len(ids) |-> carts[ids[i]].exists]
          IN (/\ sessions[sid].exists /\ sessions[sid].hasCarts
              /\ SomeButNotAll(found)
              /\ ReviewLoad(sid))
               => /\ IdsOf(review'.carts) = KeptIds(ids, found)
                  /\ ui' # Alert("Error")]_vars

NoneFound(found) ==
  /\ Len(found) > 0
  /\ \A i \in 1..Len(found) : ~found[i]

\* The finalizer's pricing pass, handed lookups that found no document at all,
\* ends in an alert and writes no booking.
FinalizerRefusesNoItems ==
  (/\ fin.pc = "carts" /\ fin'.pc = "idle"
   /\ \A i \in 1..Len(fin.docs) : fin.docs[i].read
   /\ NoneFound([i \in 1..Len(fin.docs) |-> fin.docs[i].exists]))
    => /\ ui' = Alert("Booking failed")
       /\ bookings' = bookings

\* The details load whose lookups found no document does not show the screen
\* with an empty list of candidates.
DetailsRefusesNoItems ==
  (/\ details.pc = "loading" /\ details'.pc # "loading"
   /\ NoneFound([i \in 1..Len(details.docs) |-> details.docs[i].exists]))
    => details'.pc # "ready"

\* The review load of a session none of whose items is in the catalog shows an
\* error and no items.
ReviewRefusesNoItems ==
  \A sid \in Created :
    (/\ sessions[sid].exists /\ sessions[sid].hasCarts
     /\ NoneFound([i \in 1..Len(sessions[sid].carts) |-> carts[sessions[sid].carts[i]].exists])
     /\ ReviewLoad(sid))
      => /\ ui' = Alert("Error")
         /\ review'.carts = <<>>

\* C12: when a session references at least one item and none of them is in the
\* catalog, the details load, the review load and the finalizer's pricing pass
\* each end in an error shown to the caller and do not go on with an empty
\* item list.
C12_TotalAbsenceIsAnError ==
  [][FinalizerRefusesNoItems /\ DetailsRefusesNoItems /\ ReviewRefusesNoItems]_vars

NoItemsInDetails == [][DetailsRefusesNoItems]_vars
NoItemsInReview == [][ReviewRefusesNoItems]_vars

\* What the screens have normalized the stored price to, so far.
Normalized == Range(priceField.review) \cup Range(priceField.final)

Text(chars) == [kind |-> "string", chars |-> chars]
Plus(x) == [neg |-> FALSE, abs |-> x]

\* C13: price normalization maps "$1,234.50" to 1234.50, "72" and the number
\* 72 to 72.0, and null, a missing field and a text without any digit to 0.0.
C13_NormalizesExamples ==
  \A out \in Normalized :
    /\ priceField.stored = Text(<<"$", "1", ",", "2", "3", "4", ".", "5", "0">>)
         => out = Plus(Ratio64(NatOf(12345), 10))
    /\ priceField.stored = Text(<<"7", "2">>) => out = Plus(Int64(72))
    /\ priceField.stored = [kind |-> "number", neg |-> FALSE, hundredths |-> 7200]
         => out = Plus(Int64(72))
    /\ priceField.stored.kind \in {"null", "undefined"} => out = Plus(Zero64)
    /\ (/\ priceField.stored.kind = "string"
        /\ \A i \in 1..Len(priceField.stored.chars) : ~IsDigit(priceField.stored.chars[i]))
         => out = Plus(Zero64)

\* Both screens have normalized the stored text "$1,234.50".
C13_Witness ==
  /\ priceField.stored = Text(<<"$", "1", ",", "2", "3", "4", ".", "5", "0">>)
  /\ priceField.review # <<>>
  /\ priceField.final # <<>>

\* The catalog of the flow holds non-negative numbers with two decimals, and
\* normalization gives each of them back.
CatalogPricesNormalizeToThemselves ==
  \A p \in PriceInputs :
    NormalizePrice([kind |-> "number", neg |-> FALSE, hundredths |-> p]) = Plus(Decimal64(p))

\* C14: whatever a catalog document holds as its daily price, the normalized
\* unit price is not negative.
C14_NormalizedPriceNonNegative ==
  \A out \in Normalized : ~out.neg

\* The trimmed, non-empty labels of the add-on lists of a session's items.
LabelsOfItems ==
  UNION {Range(TrimmedNonEmpty(addonsField.lists[i])) : i \in 1..Len(addonsField.lists)}

NoDuplicates(list) == \A i, j \in 1..Len(list) : list[i] = list[j] => i = j

\* C15: whichever of the four encodings stores an item's add-on list, the
\* labels a screen offers are the trimmed, non-empty labels of the lists of
\* the session's items, each once.
C15_EncodingsNormalizeAlike ==
  /\ addonsField.addOns # <<>>
       => /\ NoDuplicates(addonsField.addOns[1])
          /\ Range(addonsField.addOns[1]) = LabelsOfItems
  /\ addonsField.details # <<>>
       => /\ NoDuplicates(addonsField.details[1])
          /\ Range(addonsField.details[1]) = LabelsOfItems

\* The add-ons screen alone, for a session that has saved no add-on.
AddOnsScreenNormalizesAlike ==
  (addonsField.addOns # <<>> /\ addonsField.saved.items = <<>>)
    => /\ NoDuplicates(addonsField.addOns[1])
       /\ Range(addonsField.addOns[1]) = LabelsOfItems

\* The single-selection details screen, for items not stored as a map.
DetailsScreenNormalizesAlike ==
  (/\ addonsField.details # <<>>
   /\ \A i \in 1..Len(addonsField.stored) : addonsField.stored[i].kind # "map")
    => /\ NoDuplicates(addonsField.details[1])
       /\ Range(addonsField.details[1]) = LabelsOfItems

\* C16: after a successful save of add-ons (the add-ons screen's, or the
\* single-selection details screen's) the session stores exactly the saved
\* labels, whatever it stored before.
C16_SaveReplacesAddons ==
  [][\A sid \in Created, selected \in AddonInputs :
       /\ (onSave(sid, selected) /\ ui' = Navigate("ReviewScreen", sid))
            => sessions'[sid].addons = ArrayOf(selected)
       /\ \A d \in DateInputs, picked \in {<<>>} \cup {<<id>> : id \in CartIds} :
            (/\ handleSaveSelection(sid, d, selected, picked)
             /\ ui' = Navigate("ReviewScreen", sid))
              => sessions'[sid].addons = ArrayOf(selected)]_vars

\* A session's second successful save has left it with the empty list, and
\* the screen has moved on to the review.
C16_Witness ==
  \E sid \in Created :
    /\ sessions[sid].exists
    /\ sessions[sid].addons = ArrayOf(<<>>)
    /\ edits = MaxDraftEdits
    /\ ui = Navigate("ReviewScreen", sid)

\* C17: saving dates on a session id whose document does not exist ends in
\* the failure alert, creates no session document and does not navigate on.
C17_DatesOnMissingSessionFail ==
  [][\A sid \in Created, d \in DateInputs :
       /\ (~sessions[sid].exists /\ handleSave(sid, d))
            => /\ sessions' = sessions
               /\ ui' = Alert("Unable to save, try again")
       /\ \A selected \in AddonInputs, picked \in {<<>>} \cup {<<id>> : id \in CartIds} :
            (~sessions[sid].exists /\ handleSaveSelection(sid, d, selected, picked))
              => /\ sessions' = sessions
                 /\ ui' = Alert("Unable to save, try again")]_vars

\* The details screen of a session that has been deleted shows the failure
\* alert, and the session is still missing.
C17_Witness ==
  /\ details.pc \in {"ready", "failed"}
  /\ ~details.single
  /\ ~sessions[details.sid].exists
  /\ ui = Alert("Unable to save, try again")

\* C18: on the single-selection details screen at most one candidate has a
\* quantity above zero after any toggles, and the item list a save writes to
\* the session has at most one id.
C18_AtMostOneSelected ==
  [][/\ details'.single
          => Cardinality({k \in 1..Len(details'.carts) : details'.carts[k].quantity > 0}) <= 1
     /\ \A d \in DateInputs, selected \in AddonInputs :
          (/\ details.single
           /\ DetailsSave(d, selected)
           /\ ui' = Navigate("ReviewScreen", details.sid))
            => Len(sessions'[details.sid].carts) <= 1]_vars

\* Of two candidates the second was toggled on after the first, and the save
\* wrote the second alone to the session.
C18_Witness ==
  /\ details.single
  /\ Len(details.carts) = 2
  /\ details.carts[1].quantity = 0
  /\ details.carts[2].quantity = 1
  /\ sessions[details.sid].exists
  /\ sessions[details.sid].carts = <<details.carts[2].id>>
  /\ ui = Navigate("ReviewScreen", details.sid)

ProfileFields == {"firstName", "lastName", "address", "email"}
HoldsValue(v) == v \notin {Absent, Null, ""}

\* C19: a profile field that holds a value still holds one after any write of
\* a screen, the profile is never removed, and a finalization leaves the
\* fields outside its payload (email) as they are.
C19_ProfileFieldsSurvive ==
  [][\A u \in Users :
       customers[u].exists
         => /\ customers'[u].exists
            /\ \A f \in ProfileFields :
                 HoldsValue(customers[u][f]) => HoldsValue(customers'[u][f])
            /\ Len(bookings') > Len(bookings) => customers'[u].email = customers[u].email]_vars

\* Finalization leaves the fields outside its payload as they are.
FinalizationKeepsOtherFields ==
  [][\A u \in Users :
       (customers[u].exists /\ Len(bookings') > Len(bookings))
         => customers'[u].exists /\ customers'[u].email = customers[u].email]_vars

\* A registered customer has been through a finalization and still has the email.
FinalizedAfterRegistration ==
  \E u \in Users :
    /\ customers[u].exists
    /\ HoldsValue(customers[u].email)
    /\ HoldsValue(customers[u].firstName)

\* Card inputs that differ from `c` in nothing but the CVV, the name on the
\* card and the card number before its last four characters.
SameButSecrets(c) ==
  {d \in CardInputs :
     /\ d.cardMasked = c.cardMasked /\ d.cardBrand = c.cardBrand
     /\ d.cardExpiry = c.cardExpiry /\ d.expiryInput = c.expiryInput
     /\ LastFour(d.cardNumberInput) = LastFour(c.cardNumberInput)}

\* C20: a stored payment record has no field for the CVV or the name on the
\* card, holds at most four characters of a card number, and is the record
\* the same finalization writes for any other CVV, name on the card and
\* leading part of the card number.
C20_PaymentRecordHoldsNoSecrets ==
  \A k \in 1..Len(payments) :
    /\ DOMAIN payments[k]
         = {"customerId", "sessionId", "bookingId", "amount", "status", "card"}
    /\ DOMAIN payments[k].card = {"method", "last4", "brand", "expiry"}
    /\ Len(payments[k].card.last4) <= 4
    /\ \A d \in SameButSecrets(card) : CardFields(d) = payments[k].card

\* A payment record was written while the form held a CVV, a name and a card
\* number longer than four characters, with no saved card to mask it.
C20_Witness ==
  /\ Len(payments) > 0
  /\ card.cvvInput = "123"
  /\ card.nameOnCardInput = "Ann Lee"
  /\ card.cardMasked = <<>>
  /\ Len(card.cardNumberInput) > 4
  /\ payments[1].card.last4 = <<"4", "2", "4", "2">>

\* C21: the step that commits a finalization adds one payment record exactly
\* when the save-card option was on as Confirm was pressed, and that record
\* names the session and the booking of this finalization, has status 'saved'
\* and the booking's total as its amount; no other step adds a payment record.
C21_PaymentRecordIffSaveCard ==
  [][/\ Len(bookings') = Len(bookings) + 1
          => LET id == Len(bookings')
                 b == bookings'[id]
             IN IF fin.saveCard
                THEN /\ Len(payments') = Len(payments) + 1
                     /\ SubSeq(payments', 1, Len(payments)) = payments
                     /\ LET p == payments'[Len(payments')]
                        IN /\ p.sessionId = b.sessionId
                           /\ p.bookingId = id
                           /\ p.status = "saved"
                           /\ p.amount = b.totals.total
                ELSE payments' = payments
     /\ payments' # payments => Len(bookings') = Len(bookings) + 1]_vars

\* Of two finalizations the first ran with the option off and the second with
\* it on: the one payment record belongs to the second booking.
C21_Witness ==
  /\ Len(bookings) = 2
  /\ Len(payments) = 1
  /\ payments[1].bookingId = 2
  /\ payments[1].amount = bookings[2].totals.total
  /\ payments[1].amount > Deposit

\* The amounts of the claim's rule in exact hundredths: the stored amount where
\* there is one, else base = the sum of price x quantity over the line items,
\* tax = a tenth of base, deposit = 50.00, total = base + tax + deposit.
AmountsByRule(b) ==
  LET base == IF b.totals.base # <<>> THEN b.totals.base[1]
              ELSE SumLines([k \in 1..Len(b.carts) |->
                     [daily_price |-> IF b.carts[k].daily_price = <<>> THEN 0
                                      ELSE b.carts[k].daily_price[1],
                      qty |-> IF b.carts[k].qty = <<>> THEN 1 ELSE b.carts[k].qty[1]]])
      tax == IF b.totals.tax # <<>> THEN b.totals.tax[1] ELSE TenthRounded(base)
      deposit == IF b.totals.deposit # <<>> THEN b.totals.deposit[1] ELSE Deposit
      total == IF b.totals.total # <<>> THEN b.totals.total[1] ELSE base + tax + deposit
  IN [base |-> base, tax |-> tax, deposit |-> deposit, total |-> total]

\* C22: each of base, tax, deposit and total on the confirmation screen is the
\* amount the booking's totals store when they store one, and is computed
\* (base from the line items, tax a tenth of base, deposit 50.00, total the sum
\* of the three) only when they do not.
C22_StoredTotalsShownVerbatim ==
  fees.shown # <<>> => fees.shown[1] = AsNumbers(AmountsByRule(fees.booking))

\* The screen has rendered a booking that stores a total of 100.00 and a base
\* of 117.00 but no tax, over line items that add up to neither.
C22_Witness ==
  /\ fees.shown # <<>>
  /\ fees.booking.totals.total = <<10000>>
  /\ fees.booking.totals.base = <<11700>>
  /\ fees.booking.totals.tax = <<>>
  /\ Len(fees.booking.carts) = 1
  /\ fees.shown[1].tax = Decimal64(1170)
  /\ fees.shown[1].total = Decimal64(10000)

\* A session document without the named field; a missing document holds what a
\* document with no field holds.
Without(doc, field) ==
  LET d == IF doc.exists THEN doc ELSE [AddonsOnlySession(<<>>) EXCEPT !.addons = EmptyMap]
  IN [f \in (DOMAIN d) \ {field, "exists"} |-> d[f]]

\* C23: a successful save of the dates (details screen) changes nothing of the
\* session but its dates, and a successful save of the add-ons (add-ons screen)
\* nothing but its add-on list: item list, status, owner and booking reference
\* stay as they are under both, and every other session is left alone.
C23_WritersKeepToTheirFields ==
  [][\A sid \in Created :
       /\ \A d \in DateInputs :
            (handleSave(sid, d) /\ ui' = Navigate("AddOnsScreen", sid))
              => /\ Without(sessions'[sid], "dates") = Without(sessions[sid], "dates")
                 /\ \A o \in SessionIds \ {sid} : sessions'[o] = sessions[o]
       /\ \A selected \in AddonInputs :
            (onSave(sid, selected) /\ ui' = Navigate("ReviewScreen", sid))
              => /\ Without(sessions'[sid], "addons") = Without(sessions[sid], "addons")
                 /\ \A o \in SessionIds \ {sid} : sessions'[o] = sessions[o]]_vars

\* A session with two items has had its dates saved and then its add-ons: it
\* holds both, its two items, its status and its owner.
C23_Witness ==
  \E sid \in Created :
    /\ sessions[sid].exists
    /\ sessions[sid].dates # NoDates
    /\ sessions[sid].addons = ArrayOf(<<"Cooler">>)
    /\ sessions[sid].carts = <<"A", "B">>
    /\ sessions[sid].status = "in_progress"
    /\ sessions[sid].customerId = "u1"
    /\ edits = 2
    /\ ui = Navigate("ReviewScreen", sid)

\* What each screen keeps in its state hooks.
AddOnsState == <<addOns.addons, addOns.loading>>
PaymentState == <<payment.personal, payment.saveCard, payment.fetching, card>>
ReviewState == <<review.carts, review.profile, review.loading>>

\* The add-ons load calls no setter once its screen is unmounted.
AddOnsLoadChecksFlag ==
  [][(~addOns.mounted /\ ~addOns'.mounted) => AddOnsState' = AddOnsState]_vars

\* The payment load calls no setter once its screen is unmounted.
PaymentLoadChecksFlag ==
  [][(~payment.mounted /\ ~payment'.mounted) => PaymentState' = PaymentState]_vars

\* C24: once the add-ons, the payment or the review screen is unmounted, no
\* later step of its load changes what the screen holds in its state.
C24_NoUpdateAfterUnmount ==
  [][/\ (~addOns.mounted /\ ~addOns'.mounted) => AddOnsState' = AddOnsState
     /\ (~payment.mounted /\ ~payment'.mounted) => PaymentState' = PaymentState
     /\ (~review.mounted /\ ~review'.mounted) => ReviewState' = ReviewState]_vars

\* An add-ons load and a payment load have ended after their screens were
\* left, and the screens still show their spinners.
LoadsEndedAfterUnmount ==
  /\ addOns.pc = "done" /\ ~addOns.mounted /\ addOns.loading
  /\ payment.pc = "done" /\ ~payment.mounted /\ payment.fetching

\* C25: unmounting the landing screen removes its catalog listener and
\* unmounting the confirmation screen its booking listener, and while a screen
\* is unmounted no snapshot and no error of its subscription changes what the
\* screen holds.
C25_FeedsEndWithTheirScreens ==
  [][/\ (landing.mounted /\ ~landing'.mounted) => ~landing'.listening
     /\ (~landing.mounted /\ ~landing'.mounted)
          => /\ <<landing.carts, landing.loading>>' = <<landing.carts, landing.loading>>
             /\ ~landing'.listening
     /\ (confirmation.mounted /\ ~confirmation'.mounted) => ~confirmation'.listening
     /\ (~confirmation.mounted /\ ~confirmation'.mounted)
          => /\ <<confirmation.booking, confirmation.loading>>'
                  = <<confirmation.booking, confirmation.loading>>
             /\ ~confirmation'.listening]_vars

\* The landing screen was left after its first snapshot and the catalog has
\* changed since; the confirmation screen of a booking was left before its
\* snapshot came: neither change has reached a screen.
C25_Witness ==
  /\ ~landing.mounted
  /\ landing.seen = 0 /\ catalogChanges = 1
  /\ ~confirmation.mounted
  /\ confirmation.bookingId = 1 /\ Len(bookings) = 1
  /\ ~confirmation.delivered /\ confirmation.loading

\* The rejection of a query whose composite index has not been built.
IndexMissing == [code |-> "firestore/failed-precondition", requiresIndex |-> TRUE]

\* C26: the unordered query is sent exactly when the sorted query was rejected
\* for its missing index, and never after another rejection; when it settles,
\* the screen holds the record the sorted query would have returned, the
\* customer's most recent one, or none when the fetch itself failed; a mounted
\* screen is prefilled from that record, and no step of the load shows an alert.
C26_FallbackFindsTheSameRecord ==
  [][/\ (payment.pc = "sorted" /\ payment'.pc # "sorted")
          => /\ (payment'.pc = "unordered") = (payment'.error = <<IndexMissing>>)
             /\ payment'.queries
                  = IF payment'.error = <<IndexMissing>>
                    THEN <<"sorted", "unordered">> ELSE <<"sorted">>
             /\ ui' = ui
     /\ (payment.pc = "unordered" /\ payment'.pc = "done")
          => /\ payment.error = <<IndexMissing>>
             /\ payment'.paymentDocData \in {MostRecent(payment.uid), <<>>}
             /\ payment'.queries = <<"sorted", "unordered">>
             /\ (~payment.cancelled /\ payment'.paymentDocData # <<>>)
                  => /\ card' = Prefilled(MostRecent(payment.uid)[1])
                     /\ payment'.saveCard
             /\ ~payment.cancelled => ~payment'.fetching
             /\ ui' = ui]_vars

\* The customer has saved two payments; the sorted query of the next prefill
\* was rejected for its index, and the fallback has found the second of them.
C26_Witness ==
  /\ Cardinality(PaymentsOf("u1")) = 2
  /\ payment.mounted /\ payment.pc = "done" /\ ~payment.fetching
  /\ payment.queries = <<"sorted", "unordered">>
  /\ payment.paymentDocData = <<payments[2]>>
  /\ payment.saveCard
  /\ payments[1].card # payments[2].card

\* C27: a tap that creates a session puts the tapped item, the one whose
\* quantity the tap raises, into the session's item list, whatever was tapped
\* before on the mounted screen.
C27_TappedItemIsInItsSession ==
  [][(nextSession' = nextSession + 1 /\ landing'.carts # landing.carts)
       => \A k \in 1..Len(landing.carts) :
            landing'.carts[k].quantity > landing.carts[k].quantity
              => \E i \in 1..Len(sessions'[nextSession'].carts) :
                   sessions'[nextSession'].carts[i] = landing.carts[k].id]_vars

\* The review screen holds what a load of its session would give it now, and
\* the finalizer has read the session's item list and the catalog as they are
\* now: nothing has changed since either of them read.
NothingChangedSinceReview ==
  /\ review.sid = fin.sid /\ ~review.loading
  /\ sessions[fin.sid].exists /\ sessions[fin.sid].hasCarts
  /\ fin.carts = sessions[fin.sid].carts
  /\ \A i \in 1..Len(fin.docs) :
       /\ fin.docs[i].exists = carts[fin.carts[i]].exists
       /\ fin.docs[i].exists => fin.docs[i].daily_price = carts[fin.carts[i]].daily_price
  /\ review.carts
       = IF \A i \in 1..Len(fin.carts) : carts[fin.carts[i]].exists
         THEN ReviewLines(fin.carts) ELSE <<>>

\* C28: when nothing has changed since the review screen loaded, the total of
\* the booking a commit stores is the total the review screen shows, also for
\* a session that lists an item the catalog does not hold.
C28_BookedTotalIsReviewedTotal ==
  [][(Len(bookings') = Len(bookings) + 1 /\ NothingChangedSinceReview)
       => bookings'[Len(bookings')].totals.total = ReviewTotals.total]_vars

\* Such a commit of a session whose items are all in the catalog.
C28_AllPresent ==
  [][(Len(bookings') = Len(bookings) + 1 /\ NothingChangedSinceReview
        /\ \A i \in 1..Len(fin.carts) : carts[fin.carts[i]].exists)
       => bookings'[Len(bookings')].totals = ReviewTotals]_vars

\* C29: the customer id a commit stores in its booking is the customer id of
\* the session the booking is made from.
C29_BookingOwnerIsSessionOwner ==
  [][Len(bookings') = Len(bookings) + 1
       => LET b == bookings'[Len(bookings')]
          IN b.customerId = sessions[b.sessionId].customerId]_vars

\* C30: every stored session has an owning customer and a status of
\* 'in_progress' or 'booked', and a step that brings a session into being is
\* a session creation: it stores the document under the next fresh id.
C30_SessionsComeFromCreation ==
  [][\A s \in SessionIds :
       /\ sessions'[s].exists
            => /\ sessions'[s].customerId \in Users
               /\ sessions'[s].status \in {"in_progress", "booked"}
       /\ (~sessions[s].exists /\ sessions'[s].exists)
            => /\ nextSession' = nextSession + 1
               /\ s = nextSession']_vars

====
